---- MODULE Spec2Model ----
(***************************************************************************)
(* philoking: agents on a shared Kafka topic decide, per message, whether  *)
(* to reply.  The module models the conversation store                     *)
(* (internal/conversation), the response decision of the natural agents   *)
(* (internal/agent) and the consuming loops around them.                   *)
(*                                                                         *)
(* Text is a sequence of one-character strings, so that lower-casing and   *)
(* substring search are computed and not assumed.  Probabilities and       *)
(* random draws are in tenths: 7 stands for 0.7.                           *)
(***************************************************************************)
EXTENDS Naturals, Integers, Sequences, FiniteSets

VARIABLES
    build,          \* which generation of the agent runtime is built
    agentConfigs,   \* config.AgentsConfig.NaturalAgents: id -> NaturalAgentConfig
    conversations,  \* conversation.Manager.conversations: id -> Conversation
    agents,         \* the constructed agents: id -> their fields
    chatMessages,   \* the log of the topic Topics.ChatMessages
    chatResponses,  \* the log of the topic Topics.ChatResponses
    offset,         \* per consumer group, how many messages of chatMessages it has read
    last,           \* the last handler or decision call: its inputs and outcome
    done,           \* the contexts that are cancelled
    loops,          \* per agent, the subscription loops it started that still run
    mu,             \* conversation.Manager.mu: the goroutine that holds it, or ""
    calls,          \* per goroutine, the Store call it is in: position and locals
    participants,   \* conversation.FlowManager.participants: id -> Participant
    consumers,      \* per subscription loop: its group, position and what it read and handled
    web,            \* web.Server: clients, clientsMu and the goroutines that use them
    slices,         \* conv.Messages as a Go slice: backing arrays, header, returned slices
    manager         \* agent.Manager: agents, mu and the goroutines inside RegisterAgent

vars == <<slices, manager, consumers, web, done, loops, build, agentConfigs, conversations, agents, chatMessages, chatResponses, offset,
          last, mu, calls, participants>>

---------------------------------------------------------------------------
(* Bounds of the model *)

\* longest history the decision is tried on; above the window of 5
MaxHist == 6
\* most messages published on the chat topic
MaxLog == 5
\* messages published from outside the agents
MaxSent == 2
\* calls of AddMessage that the goroutines of the Store make
MaxAppends == 3
\* most subscription loops an agent starts
MaxLoops == 2
\* most messages on the chat topic in Scenario B: the trigger and two replies
MaxScenarioLog == 3

---------------------------------------------------------------------------
(* Program constants *)

\* natural.go:70, GetRecentMessages(..., 5)
RecentLimit == 5
\* natural.go:79, ourRecentResponses >= 2
SpamLimit == 2
\* conversation manager, rand.Float64() < 0.3
OverhearChance == 3
\* factory: ResponseChance = 0.7 when the configured value is 0
DefaultResponseChance == 7

MessageTypeUser == "user"
MessageTypeAgent == "agent"
MessageTypeSystem == "system"

---------------------------------------------------------------------------
(* Text: strings.ToLower and strings.Contains *)

UpperLetters ==
    <<"A","B","C","D","E","F","G","H","I","J","K","L","M",
      "N","O","P","Q","R","S","T","U","V","W","X","Y","Z">>
LowerLetters ==
    <<"a","b","c","d","e","f","g","h","i","j","k","l","m",
      "n","o","p","q","r","s","t","u","v","w","x","y","z">>

ToLowerChar(c) ==
    IF \E i \in 1..Len(UpperLetters) : UpperLetters[i] = c
    THEN LowerLetters[CHOOSE i \in 1..Len(UpperLetters) : UpperLetters[i] = c]
    ELSE c

ToLower(s) == [i \in 1..Len(s) |-> ToLowerChar(s[i])]

Contains(s, substr) ==
    \E i \in 0..(Len(s) - Len(substr)) : SubSeq(s, i + 1, i + Len(substr)) = substr

\* the keywords of the personality heuristics
KwQuestion == <<"?">>
KwWhat == <<"w","h","a","t">>
KwHow == <<"h","o","w">>
KwHelp == <<"h","e","l","p">>
KwProblem == <<"p","r","o","b","l","e","m">>
KwIssue == <<"i","s","s","u","e">>
KwHello == <<"h","e","l","l","o">>
KwHi == <<"h","i">>
KwGreeting == <<"g","r","e","e","t","i","n","g">>

---------------------------------------------------------------------------
(* conversation.Manager *)

\* Conversation.mu, an RWMutex: the writer inside, or the readers inside
Unlocked == [writer |-> "", readers |-> {}]

\* no Participant in Conversation.Participants
NoParticipants == [p \in {} |-> "nil"]

\* the Conversation literal of GetOrCreateConversation; Gen tells the
\* objects created for one id apart (1 for the first)
NewConversation ==
    [Messages |-> <<>>, Topic |-> "", Mood |-> "", Participants |-> NoParticipants,
     mu |-> Unlocked, Gen |-> 1]

\* the registry after GetOrCreateConversation(conversationID)
GetOrCreateConversation(convs, conversationID) ==
    IF conversationID \in DOMAIN convs
    THEN convs
    ELSE [c \in (DOMAIN convs) \cup {conversationID} |->
            IF c = conversationID THEN NewConversation ELSE convs[c]]

\* the registry after AddMessage(conversationID, message)
AddMessage(convs, conversationID, message) ==
    LET cs == GetOrCreateConversation(convs, conversationID)
    IN  [cs EXCEPT ![conversationID].Messages = Append(@, message)]

\* faulty variant of GetRecentMessages: the oldest messages are returned
GetRecentMessages_oldest(convs, conversationID, limit) ==
    LET msgs == GetOrCreateConversation(convs, conversationID)[conversationID].Messages
    IN  IF Len(msgs) <= limit
        THEN msgs
        ELSE SubSeq(msgs, 1, limit)

\* what GetRecentMessages(conversationID, limit) returns
GetRecentMessages(convs, conversationID, limit) ==
    LET msgs == GetOrCreateConversation(convs, conversationID)[conversationID].Messages
    IN  IF Len(msgs) <= limit
        THEN msgs
        ELSE SubSeq(msgs, Len(msgs) - limit + 1, Len(msgs))

\* faulty variant of IsRelevantToAgent: the system-message shortcut is missing
IsRelevantToAgent_noSystem(message, agentID, capabilities, personality, overhear) ==
    LET content == ToLower(message.Content)
    IN  \/ message.ReplyTo = agentID
        \/ \E i \in 1..Len(capabilities) : Contains(content, ToLower(capabilities[i]))
        \/ message.Relevance = "high"
        \/ /\ personality = "curious"
           /\ (Contains(content, KwQuestion) \/ Contains(content, KwWhat)
                 \/ Contains(content, KwHow))
        \/ /\ personality = "helpful"
           /\ (Contains(content, KwHelp) \/ Contains(content, KwProblem)
                 \/ Contains(content, KwIssue))
        \/ /\ personality = "social"
           /\ (Contains(content, KwHello) \/ Contains(content, KwHi)
                 \/ Contains(content, KwGreeting))
        \/ overhear < OverhearChance

\* faulty variant of IsRelevantToAgent: capability keywords matched case-sensitively
IsRelevantToAgent_caseSensitive(message, agentID, capabilities, personality, overhear) ==
    LET content == ToLower(message.Content)
    IN  \/ message.Type = MessageTypeSystem
        \/ message.ReplyTo = agentID
        \/ \E i \in 1..Len(capabilities) : Contains(message.Content, capabilities[i])
        \/ message.Relevance = "high"
        \/ /\ personality = "curious"
           /\ (Contains(content, KwQuestion) \/ Contains(content, KwWhat)
                 \/ Contains(content, KwHow))
        \/ /\ personality = "helpful"
           /\ (Contains(content, KwHelp) \/ Contains(content, KwProblem)
                 \/ Contains(content, KwIssue))
        \/ /\ personality = "social"
           /\ (Contains(content, KwHello) \/ Contains(content, KwHi)
                 \/ Contains(content, KwGreeting))
        \/ overhear < OverhearChance

\* IsRelevantToAgent; overhear is the value rand.Float64() returns when the
\* call gets as far as drawing it
IsRelevantToAgent(message, agentID, capabilities, personality, overhear) ==
    LET content == ToLower(message.Content)
    IN  \/ message.Type = MessageTypeSystem
        \/ message.ReplyTo = agentID
        \/ \E i \in 1..Len(capabilities) : Contains(content, ToLower(capabilities[i]))
        \/ message.Relevance = "high"
        \/ /\ personality = "curious"
           /\ (Contains(content, KwQuestion) \/ Contains(content, KwWhat)
                 \/ Contains(content, KwHow))
        \/ /\ personality = "helpful"
           /\ (Contains(content, KwHelp) \/ Contains(content, KwProblem)
                 \/ Contains(content, KwIssue))
        \/ /\ personality = "social"
           /\ (Contains(content, KwHello) \/ Contains(content, KwHi)
                 \/ Contains(content, KwGreeting))
        \/ overhear < OverhearChance

---------------------------------------------------------------------------
(* agent.NaturalAgent *)

\* the loop of shouldRespond over recentMessages
ourRecentResponses(n, recentMessages) ==
    Cardinality({i \in 1..Len(recentMessages) : recentMessages[i].AgentID = n.id})

\* faulty variant of shouldRespond: the test of the sender is missing
shouldRespond_noSelfCheck(n, message, draw, recentMessages) ==
    IF draw > n.responseChance THEN FALSE
    ELSE IF ourRecentResponses(n, recentMessages) >= SpamLimit THEN FALSE
    ELSE TRUE

\* faulty variant of shouldRespond: the cap is one too high
shouldRespond_capOffByOne(n, message, draw, recentMessages) ==
    IF message.AgentID = n.id THEN FALSE
    ELSE IF draw > n.responseChance THEN FALSE
    ELSE IF ourRecentResponses(n, recentMessages) > SpamLimit THEN FALSE
    ELSE TRUE

\* shouldRespond of the unified agent; draw is the value of rand.Float64(),
\* recentMessages what GetRecentMessages returns
shouldRespond(n, message, draw, recentMessages) ==
    IF message.AgentID = n.id THEN FALSE
    ELSE IF draw > n.responseChance THEN FALSE
    ELSE IF ourRecentResponses(n, recentMessages) >= SpamLimit THEN FALSE
    ELSE TRUE

\* shouldRespond of the agent with a personality: relevance comes first
shouldRespondRelevant(n, message, relevant, draw, recentMessages) ==
    IF ~relevant THEN FALSE
    ELSE IF message.AgentID = n.id THEN FALSE
    ELSE IF draw > n.responseChance THEN FALSE
    ELSE IF ourRecentResponses(n, recentMessages) >= SpamLimit THEN FALSE
    ELSE TRUE

\* SetResponseChance of the unified agent
SetResponseChance(n, chance) == [n EXCEPT !.responseChance = chance]

\* NewNaturalAgent of the unified agent: the chance is the argument
NewNaturalAgent(id, name, responseChance) ==
    [id |-> id, name |-> name, kind |-> "natural", personality |-> "",
     interests |-> <<>>, responseChance |-> responseChance, running |-> FALSE]

\* NewNaturalAgent of the agent with a personality: the chance is 0.7
NewPersonalityAgent(id, name, personality, interests) ==
    [id |-> id, name |-> name, kind |-> "personality", personality |-> personality,
     interests |-> interests, responseChance |-> DefaultResponseChance,
     running |-> FALSE]

\* NewEchoAgent; kind tells the typed handler (echo.go) from the unified one
NewEchoAgent(kind) ==
    [id |-> "echo-agent", name |-> "Echo Agent", kind |-> kind, personality |-> "",
     interests |-> <<>>, responseChance |-> DefaultResponseChance, running |-> FALSE]

\* Factory.createNaturalAgent: "nil" for a config without id
createNaturalAgent(agentConfig) ==
    IF agentConfig.ID = "" THEN "nil"
    ELSE NewNaturalAgent(
            agentConfig.ID,
            IF agentConfig.Name = "" THEN agentConfig.ID ELSE agentConfig.Name,
            IF agentConfig.ResponseChance = 0 THEN DefaultResponseChance
            ELSE agentConfig.ResponseChance)

---------------------------------------------------------------------------
(* The inputs the model draws *)

\* rand.Float64() is in [0, 1): tenths 0..9
Draws == {0, 3, 7, 9}
\* the overhear draw: just below 0.3 and exactly 0.3
OverhearDraws == {2, 3}
\* configured response_chance values
Chances == {0, 3, 7, 10}
\* marks a draw the handler never made
NoDraw == 0 - 1

MainConversation == "main-conversation"
SideConversation == "side-conversation"

TextHiQ == <<"H","i","?">>
TextHELP == <<"H","E","L","P">>
TextOk == <<"o","k">>
TextEmpty == <<>>

Personalities == {"curious", "helpful", "social", "technical"}
InterestOK == << <<"O","K">> >>
InterestLists == {<<>>, InterestOK}

\* the subscription loops of the agents that were started
Subscriptions(ags) == [a \in DOMAIN ags |-> IF ags[a].running THEN 1 ELSE 0]

\* a nil *types.ChatMessage
NoMessage ==
    [Type |-> "", Content |-> <<>>, AgentID |-> "", ConversationID |-> "",
     ReplyTo |-> "", Relevance |-> ""]

NoCall ==
    [op |-> "none", agent |-> "", message |-> NoMessage, draw |-> NoDraw,
     overhear |-> NoDraw, recent |-> <<>>, relevant |-> FALSE, decided |-> FALSE,
     respond |-> FALSE, published |-> FALSE]

EmptyRegistry == [c \in {} |-> NewConversation]
\* no goroutine is inside the Store
NoGoroutines == [t \in {} |-> "idle"]
NoConfigs == [a \in {} |-> "nil"]
\* no subscription loop is modelled
NoConsumers == <<>>
\* the web server is not modelled
NoWeb == [clients |-> {}, clientsMu |-> Unlocked, writing |-> {}, frames |-> <<>>]
\* conv.Messages is not modelled as a slice
NoSlices == [arrays |-> <<>>, messages |-> [array |-> 0, len |-> 0], returned |-> <<>>]
\* the agent manager is not modelled
NoManager ==
    [agents |-> <<>>, mu |-> "", frames |-> <<>>, registered |-> <<>>, refused |-> <<>>]

NaturalAgentConfig(id, chance) ==
    [ID |-> id, Name |-> "", ResponseChance |-> chance, IsEnabled |-> TRUE]

---------------------------------------------------------------------------
(* SpecDecide: shouldRespond applied to drawn inputs.  One agent "a1" is   *)
(* constructed, the store is filled message by message, and the decision   *)
(* is taken on a drawn message with drawn random values.                   *)

DecideSenders == {"a1", "u1"}

UnifiedMessages ==
    [Type : {MessageTypeUser, MessageTypeAgent, MessageTypeSystem}, Content : {TextOk},
     AgentID : DecideSenders, ConversationID : {MainConversation, SideConversation},
     ReplyTo : {"", "a1"}, Relevance : {""}]

TypedMessages ==
    [Type : {MessageTypeUser, MessageTypeSystem}, Content : {TextHiQ, TextOk},
     AgentID : DecideSenders, ConversationID : {MainConversation},
     ReplyTo : {"", "a1"}, Relevance : {""}]

HistoryMessage(sender) ==
    [Type |-> IF sender = "a1" THEN MessageTypeAgent ELSE MessageTypeUser,
     Content |-> TextOk, AgentID |-> sender, ConversationID |-> MainConversation,
     ReplyTo |-> "", Relevance |-> ""]

InitDecide ==
    /\ build \in {"unified", "typed"}
    /\ \/ /\ build = "unified"
          /\ \E c \in Chances :
                /\ agentConfigs = [a \in {"a1"} |-> NaturalAgentConfig("a1", c)]
                /\ agents = [a \in {"a1"} |-> createNaturalAgent(agentConfigs[a])]
       \/ /\ build = "typed"
          /\ agentConfigs = NoConfigs
          /\ \E p \in {"curious", "technical"}, i \in InterestLists :
                agents = [a \in {"a1"} |-> NewPersonalityAgent("a1", "a1", p, i)]
    /\ conversations = EmptyRegistry
    /\ chatMessages = <<>>
    /\ chatResponses = <<>>
    /\ offset = [c \in {} |-> 0]
    /\ last = NoCall
    /\ mu = ""
    /\ calls = NoGoroutines
    /\ participants = NoParticipants
    /\ done = {}
    /\ loops = Subscriptions(agents)
    /\ consumers = NoConsumers
    /\ web = NoWeb
    /\ slices = NoSlices
    /\ manager = NoManager

\* the flow manager stores one more message
DecideAddMessage ==
    \E sender \in DecideSenders :
        /\ last.op = "none"
        /\ MainConversation \in DOMAIN conversations =>
              Len(conversations[MainConversation].Messages) < MaxHist
        /\ conversations' = AddMessage(conversations, MainConversation, HistoryMessage(sender))
        /\ UNCHANGED <<slices, manager, consumers, web, done, loops, mu, calls, participants, build, agentConfigs, agents, chatMessages, chatResponses, offset, last>>

\* shouldRespond of the unified agent on a drawn message
DecideUnified ==
    \E m \in UnifiedMessages, d \in Draws :
        LET n == agents["a1"]
            recent == GetRecentMessages(conversations, m.ConversationID, RecentLimit)
            reachesStore == m.AgentID # n.id /\ ~(d > n.responseChance)
        IN  /\ build = "unified"
            /\ last.op = "none"
            /\ last' = [op |-> "shouldRespond", agent |-> n.id, message |-> m,
                        draw |-> d, overhear |-> NoDraw, recent |-> recent,
                        relevant |-> TRUE, decided |-> TRUE,
                        respond |-> shouldRespond(n, m, d, recent),
                        published |-> FALSE]
            /\ conversations' =
                  IF reachesStore
                  THEN GetOrCreateConversation(conversations, m.ConversationID)
                  ELSE conversations
            /\ UNCHANGED <<slices, manager, consumers, web, done, loops, mu, calls, participants, build, agentConfigs, agents, chatMessages, chatResponses, offset>>

\* shouldRespond of the agent with a personality on a drawn message
DecideTyped ==
    \E m \in TypedMessages, d \in Draws, o \in OverhearDraws :
        LET n == agents["a1"]
            relevant == IsRelevantToAgent(m, n.id, n.interests, n.personality, o)
            recent == GetRecentMessages(conversations, m.ConversationID, RecentLimit)
            reachesStore == relevant /\ m.AgentID # n.id /\ ~(d > n.responseChance)
        IN  /\ build = "typed"
            /\ last.op = "none"
            /\ last' = [op |-> "shouldRespond", agent |-> n.id, message |-> m,
                        draw |-> d, overhear |-> o, recent |-> recent,
                        relevant |-> relevant, decided |-> TRUE,
                        respond |-> shouldRespondRelevant(n, m, relevant, d, recent),
                        published |-> FALSE]
            /\ conversations' =
                  IF reachesStore
                  THEN GetOrCreateConversation(conversations, m.ConversationID)
                  ELSE conversations
            /\ UNCHANGED <<slices, manager, consumers, web, done, loops, mu, calls, participants, build, agentConfigs, agents, chatMessages, chatResponses, offset>>

\* the call returns to its caller
Return ==
    /\ last.op # "none"
    /\ last' = NoCall
    /\ UNCHANGED <<slices, manager, consumers, web, done, loops, mu, calls, participants, build, agentConfigs, conversations, agents, chatMessages,
                   chatResponses, offset>>

NextDecide ==
    \/ DecideAddMessage
    \/ DecideUnified
    \/ DecideTyped
    \/ Return

SpecDecide == InitDecide /\ [][NextDecide]_vars

---------------------------------------------------------------------------
(* SpecRelevant: IsRelevantToAgent applied to drawn inputs.                *)

RelevantMessages ==
    [Type : {MessageTypeUser, MessageTypeAgent, MessageTypeSystem},
     Content : {TextHiQ, TextHELP, TextOk, TextEmpty},
     AgentID : DecideSenders, ConversationID : {MainConversation},
     ReplyTo : {"", "a1"}, Relevance : {"", "high"}]

InitRelevant ==
    /\ build = "typed"
    /\ agentConfigs = NoConfigs
    /\ \E p \in Personalities, i \in InterestLists :
          agents = [a \in {"a1"} |-> NewPersonalityAgent("a1", "a1", p, i)]
    /\ conversations = EmptyRegistry
    /\ chatMessages = <<>>
    /\ chatResponses = <<>>
    /\ offset = [c \in {} |-> 0]
    /\ last = NoCall
    /\ mu = ""
    /\ calls = NoGoroutines
    /\ participants = NoParticipants
    /\ done = {}
    /\ loops = Subscriptions(agents)
    /\ consumers = NoConsumers
    /\ web = NoWeb
    /\ slices = NoSlices
    /\ manager = NoManager

\* IsRelevantToAgent on a drawn message with a drawn overhear value
RelevantCall ==
    \E m \in RelevantMessages, o \in Draws :
        LET n == agents["a1"]
        IN  /\ last.op = "none"
            /\ last' = [NoCall EXCEPT
                          !.op = "IsRelevantToAgent", !.agent = n.id, !.message = m,
                          !.overhear = o,
                          !.relevant = IsRelevantToAgent(m, n.id, n.interests,
                                                         n.personality, o)]
            /\ UNCHANGED <<slices, manager, consumers, web, done, loops, mu, calls, participants, build, agentConfigs, conversations, agents, chatMessages,
                           chatResponses, offset>>

NextRelevant ==
    \/ RelevantCall
    \/ Return

SpecRelevant == InitRelevant /\ [][NextRelevant]_vars

---------------------------------------------------------------------------
(* Reply texts and the keyword tables of the flow manager *)

EchoPrefix == <<"E","c","h","o",":"," ">>

EchoHello == <<"H","e","l","l","o","!"," ","I","'","m"," ","t","h","e"," ","E","c","h",
    "o"," ","A","g","e","n","t","."," ","Y","o","u"," ","s","a","i","d",":"," ">>

EchoBye == <<"G","o","o","d","b","y","e","!"," ","T","h","a","n","k","s"," ","f","o",
    "r"," ","c","h","a","t","t","i","n","g","."," ","Y","o","u"," ","s","a","i","d",":",
    " ">>

EchoHelp == <<"I","'","m"," ","t","h","e"," ","E","c","h","o"," ","A","g","e","n","t",
    "!"," ","I"," ","s","i","m","p","l","y"," ","e","c","h","o"," ","b","a","c","k"," ",
    "w","h","a","t"," ","y","o","u"," ","s","a","y","."," ","T","r","y"," ","s","a","y",
    "i","n","g"," ","s","o","m","e","t","h","i","n","g","!">>

KwBye == <<"b","y","e">>

responses == <<
    <<"T","h","a","t","'","s"," ","i","n","t","e","r","e","s","t","i","n","g","!">>,
    <<"I"," ","s","e","e"," ","w","h","a","t"," ","y","o","u"," ","m","e","a","n",".">>,
    <<"T","h","a","t","'","s"," ","a"," ","g","o","o","d"," ","p","o","i","n","t",".">>,
    <<"I"," ","a","g","r","e","e"," ","w","i","t","h"," ","t","h","a","t",".">>,
    <<"T","h","a","t"," ","m","a","k","e","s"," ","s","e","n","s","e",".">>,
    <<"I"," ","h","a","d","n","'","t"," ","t","h","o","u","g","h","t"," ","o","f"," ",
      "i","t"," ","t","h","a","t"," ","w","a","y",".">>,
    <<"T","h","a","t","'","s"," ","w","o","r","t","h"," ","c","o","n","s","i","d","e",
      "r","i","n","g",".">>,
    <<"I"," ","c","a","n"," ","r","e","l","a","t","e"," ","t","o"," ","t","h","a","t",
      ".">>,
    <<"T","h","a","t","'","s"," ","a"," ","v","a","l","i","d"," ","p","e","r","s","p",
      "e","c","t","i","v","e",".">>,
    <<"I"," ","u","n","d","e","r","s","t","a","n","d"," ","w","h","a","t"," ","y","o",
      "u","'","r","e"," ","s","a","y","i","n","g",".">>
    >>

curiousResponses == <<
    <<"T","h","a","t","'","s"," ","i","n","t","e","r","e","s","t","i","n","g","!"," ",
      "C","a","n"," ","y","o","u"," ","t","e","l","l"," ","m","e"," ","m","o","r","e",
      " ","a","b","o","u","t"," ","t","h","a","t","?">>,
    <<"I","'","m"," ","c","u","r","i","o","u","s"," ","a","b","o","u","t"," ","t","h",
      "a","t","."," ","W","h","a","t"," ","m","a","d","e"," ","y","o","u"," ","t","h",
      "i","n","k"," ","o","f"," ","i","t","?">>,
    <<"F","a","s","c","i","n","a","t","i","n","g","!"," ","I","'","d"," ","l","o","v",
      "e"," ","t","o"," ","h","e","a","r"," ","m","o","r","e"," ","d","e","t","a","i",
      "l","s",".">>,
    <<"T","h","a","t","'","s"," ","a"," ","g","r","e","a","t"," ","p","o","i","n","t",
      "."," ","H","o","w"," ","d","i","d"," ","y","o","u"," ","c","o","m","e"," ","t",
      "o"," ","t","h","a","t"," ","c","o","n","c","l","u","s","i","o","n","?">>,
    <<"I","'","m"," ","i","n","t","r","i","g","u","e","d"," ","b","y"," ","t","h","a",
      "t","."," ","C","o","u","l","d"," ","y","o","u"," ","e","l","a","b","o","r","a",
      "t","e","?">>
    >>

GreatQuestion == <<"T","h","a","t","'","s"," ","a"," ","g","r","e","a","t"," ","q","u",
    "e","s","t","i","o","n","!"," ">>

ReallyInteresting == <<"I"," ","f","i","n","d"," ","t","h","a","t"," ","r","e","a","l",
    "l","y"," ","i","n","t","e","r","e","s","t","i","n","g","!"," ">>

systemResponses == <<
    <<"I"," ","u","n","d","e","r","s","t","a","n","d"," ","t","h","e"," ","s","y","s",
      "t","e","m"," ","m","e","s","s","a","g","e",".">>,
    <<"G","o","t"," ","i","t",","," ","t","h","a","n","k","s"," ","f","o","r"," ","t",
      "h","e"," ","u","p","d","a","t","e",".">>,
    <<"I","'","l","l"," ","k","e","e","p"," ","t","h","a","t"," ","i","n"," ","m","i",
      "n","d",".">>,
    <<"U","n","d","e","r","s","t","o","o","d",".">>,
    <<"N","o","t","e","d",".">>
    >>

topics == [
    technology |-> {
        <<"c","o","d","e">>,
        <<"p","r","o","g","r","a","m","m","i","n","g">>,
        <<"s","o","f","t","w","a","r","e">>,
        <<"c","o","m","p","u","t","e","r">>,
        <<"t","e","c","h">>,
        <<"a","i">>,
        <<"m","a","c","h","i","n","e"," ","l","e","a","r","n","i","n","g">>},
    philosophy |-> {
        <<"t","h","i","n","k">>,
        <<"b","e","l","i","e","v","e">>,
        <<"m","e","a","n","i","n","g">>,
        <<"p","u","r","p","o","s","e">>,
        <<"e","x","i","s","t","e","n","c","e">>,
        <<"t","r","u","t","h">>,
        <<"r","e","a","l","i","t","y">>},
    science |-> {
        <<"r","e","s","e","a","r","c","h">>,
        <<"s","t","u","d","y">>,
        <<"e","x","p","e","r","i","m","e","n","t">>,
        <<"t","h","e","o","r","y">>,
        <<"h","y","p","o","t","h","e","s","i","s">>,
        <<"d","a","t","a">>},
    art |-> {
        <<"c","r","e","a","t","i","v","e">>,
        <<"a","r","t","i","s","t","i","c">>,
        <<"d","e","s","i","g","n">>,
        <<"b","e","a","u","t","i","f","u","l">>,
        <<"a","e","s","t","h","e","t","i","c">>,
        <<"m","u","s","i","c">>},
    politics |-> {
        <<"g","o","v","e","r","n","m","e","n","t">>,
        <<"p","o","l","i","c","y">>,
        <<"e","l","e","c","t","i","o","n">>,
        <<"d","e","m","o","c","r","a","c","y">>,
        <<"r","i","g","h","t","s">>,
        <<"l","a","w">>},
    health |-> {
        <<"h","e","a","l","t","h">>,
        <<"m","e","d","i","c","a","l">>,
        <<"d","o","c","t","o","r">>,
        <<"m","e","d","i","c","i","n","e">>,
        <<"w","e","l","l","n","e","s","s">>,
        <<"f","i","t","n","e","s","s">>},
    travel |-> {
        <<"t","r","a","v","e","l">>,
        <<"t","r","i","p">>,
        <<"v","a","c","a","t","i","o","n">>,
        <<"j","o","u","r","n","e","y">>,
        <<"a","d","v","e","n","t","u","r","e">>,
        <<"e","x","p","l","o","r","e">>},
    food |-> {
        <<"f","o","o","d">>,
        <<"c","o","o","k","i","n","g">>,
        <<"r","e","c","i","p","e">>,
        <<"r","e","s","t","a","u","r","a","n","t">>,
        <<"m","e","a","l">>,
        <<"t","a","s","t","e">>}
    ]

moods == [
    excited |-> {
        <<"e","x","c","i","t","e","d">>,
        <<"a","m","a","z","i","n","g">>,
        <<"a","w","e","s","o","m","e">>,
        <<"f","a","n","t","a","s","t","i","c">>,
        <<"w","o","w">>,
        <<"i","n","c","r","e","d","i","b","l","e">>},
    curious |-> {
        <<"w","o","n","d","e","r">>,
        <<"c","u","r","i","o","u","s">>,
        <<"i","n","t","e","r","e","s","t","i","n","g">>,
        <<"f","a","s","c","i","n","a","t","i","n","g">>,
        <<"i","n","t","r","i","g","u","i","n","g">>},
    concerned |-> {
        <<"w","o","r","r","i","e","d">>,
        <<"c","o","n","c","e","r","n","e","d">>,
        <<"p","r","o","b","l","e","m">>,
        <<"i","s","s","u","e">>,
        <<"t","r","o","u","b","l","e">>,
        <<"d","i","f","f","i","c","u","l","t">>},
    happy |-> {
        <<"h","a","p","p","y">>,
        <<"j","o","y">>,
        <<"p","l","e","a","s","e","d">>,
        <<"d","e","l","i","g","h","t","e","d">>,
        <<"c","h","e","e","r","f","u","l">>,
        <<"g","l","a","d">>},
    serious |-> {
        <<"s","e","r","i","o","u","s">>,
        <<"i","m","p","o","r","t","a","n","t">>,
        <<"c","r","i","t","i","c","a","l">>,
        <<"u","r","g","e","n","t">>,
        <<"m","a","t","t","e","r">>},
    casual |-> {
        <<"c","a","s","u","a","l">>,
        <<"r","e","l","a","x","e","d">>,
        <<"e","a","s","y">>,
        <<"s","i","m","p","l","e">>,
        <<"c","h","i","l","l">>}
    ]

curiousInterests == <<
    <<"q","u","e","s","t","i","o","n","s">>,
    <<"l","e","a","r","n","i","n","g">>,
    <<"d","i","s","c","o","v","e","r","y">>,
    <<"s","c","i","e","n","c","e">>,
    <<"p","h","i","l","o","s","o","p","h","y">>
    >>

\* the text EchoAgent.HandleMessage / HandleUserMessage replies with
echoResponse(content) ==
    IF Contains(ToLower(content), KwHello) THEN EchoHello \o content
    ELSE IF Contains(ToLower(content), KwBye) THEN EchoBye \o content
    ELSE IF Contains(ToLower(content), KwHelp) THEN EchoHelp
    ELSE EchoPrefix \o content

\* generateResponse of the unified agent; pick is the value of rand.Intn
generateResponse(pick) == responses[pick + 1]

\* generateCuriousResponse: the prefix depends on the content as sent
generateCuriousResponse(content, pick) ==
    IF Contains(content, KwQuestion)
    THEN GreatQuestion \o curiousResponses[pick + 1]
    ELSE IF Contains(content, <<"I">>) \/ Contains(content, <<"w","e">>)
               \/ Contains(content, <<"m","y">>)
         THEN ReallyInteresting \o curiousResponses[pick + 1]
         ELSE curiousResponses[pick + 1]

\* generateSystemResponse
generateSystemResponse(pick) == systemResponses[pick + 1]

\* detectTopic: the map is walked in an unspecified order, so every topic
\* with a keyword in the content can be the one returned
detectTopic(content) ==
    LET lower == ToLower(content)
        hits == {t \in DOMAIN topics : \E kw \in topics[t] : Contains(lower, kw)}
    IN  IF hits = {} THEN {""} ELSE hits

\* detectMood: as detectTopic, over the moods
detectMood(content) ==
    LET lower == ToLower(content)
        hits == {m \in DOMAIN moods : \E kw \in moods[m] : Contains(lower, kw)}
    IN  IF hits = {} THEN {""} ELSE hits

\* updateConversationTopic: an empty topic leaves the conversation alone
updateConversationTopic(convs, conversationID, topic) ==
    IF topic = "" THEN convs
    ELSE [GetOrCreateConversation(convs, conversationID)
            EXCEPT ![conversationID].Topic = topic]

\* updateConversationMood: an empty mood leaves the conversation alone
updateConversationMood(convs, conversationID, mood) ==
    IF mood = "" THEN convs
    ELSE [GetOrCreateConversation(convs, conversationID)
            EXCEPT ![conversationID].Mood = mood]

---------------------------------------------------------------------------
(* Spec: the running system.  The chat-messages topic is a log; every      *)
(* consumer group reads it at its own offset.  The flow manager stores     *)
(* what it reads, the agents' loops hand what they read to their handler.  *)

\* Reader.GroupID of SubscribeToChatMessages
FlowGroup == "philoking-agents"
\* "philoking-agent-" + id: the group of an agent is keyed by its id
AgentGroup(id) == id

Users == {"u1"}
SystemContents == {TextHiQ, TextHELP}
SystemChances == {0, 10}
SystemDraws == {0, 9}
NaturalPicks == {0, 9}
CuriousPicks == {0, 4}

\* the records of the topic that no agent published
Sent(topic) == Cardinality({i \in 1..Len(topic) : topic[i].Type # MessageTypeAgent})

ChatMessage(type, content, agentID, conversationID) ==
    [Type |-> type, Content |-> content, AgentID |-> agentID,
     ConversationID |-> conversationID, ReplyTo |-> "", Relevance |-> ""]

\* BaseAgent.Start
Start(n) == [n EXCEPT !.running = TRUE]

\* faulty variant of SendMessage: the conversation is the main one
SendMessage_mainConversation(n, content, conversationID) ==
    ChatMessage(MessageTypeAgent, content, n.id, MainConversation)

\* the message BaseAgent.SendMessage builds
SendMessage(n, content, conversationID) ==
    ChatMessage(MessageTypeAgent, content, n.id, conversationID)

\* the message BaseAgent.SendChatMessage builds
SendChatMessage(n, content, conversationID) ==
    ChatMessage(MessageTypeAgent, content, n.id, conversationID)

\* Client.PublishMessage / PublishChatMessage: one more record on the topic
PublishMessage(topic, message) == Append(topic, message)

\* Client.PublishChatResponse: one more record on chat-responses
PublishChatResponse(topic, message) == Append(topic, message)

\* reader.ReadMessage of a group: the record at its offset, then commit
Pending(group) == offset[group] < Len(chatMessages)
NextMessage(group) == chatMessages[offset[group] + 1]
Consumed(group) == [offset EXCEPT ![group] = @ + 1]

Init ==
    /\ build \in {"unified", "typed"}
    /\ \/ /\ build = "unified"
          /\ \E c \in SystemChances :
                /\ agentConfigs = [a \in {"a1"} |-> NaturalAgentConfig("a1", c)]
                /\ agents = [a \in {"a1", "echo-agent"} |->
                               Start(IF a = "a1"
                                     THEN createNaturalAgent(agentConfigs["a1"])
                                     ELSE NewEchoAgent("echo"))]
       \/ /\ build = "typed"
          /\ agentConfigs = NoConfigs
          /\ agents = [a \in {"curious-agent", "echo-agent"} |->
                         Start(IF a = "curious-agent"
                               THEN NewPersonalityAgent("curious-agent", "Curious Agent",
                                                        "curious", curiousInterests)
                               ELSE NewEchoAgent("typed-echo"))]
    /\ conversations = EmptyRegistry
    /\ chatMessages = <<>>
    /\ chatResponses = <<>>
    /\ offset = [g \in {FlowGroup} \cup DOMAIN agents |-> 0]
    /\ last = NoCall
    /\ mu = ""
    /\ calls = NoGoroutines
    /\ participants = NoParticipants
    /\ done = {}
    /\ loops = Subscriptions(agents)
    /\ consumers = NoConsumers
    /\ web = NoWeb
    /\ slices = NoSlices
    /\ manager = NoManager

\* Server.sendUserMessage
sendUserMessage ==
    \E content \in SystemContents, userID \in Users :
        /\ Len(chatMessages) < MaxLog
        /\ Sent(chatMessages) < MaxSent
        /\ chatMessages' = PublishMessage(chatMessages,
              ChatMessage(MessageTypeUser, content, userID, MainConversation))
        /\ last' = NoCall
        /\ UNCHANGED <<slices, manager, consumers, web, done, loops, mu, calls, participants, build, agentConfigs, conversations, agents, chatResponses, offset>>

\* a producer outside the repository writes a system message on the topic
PublishSystemMessage ==
    /\ Len(chatMessages) < MaxLog
    /\ Sent(chatMessages) < MaxSent
    /\ chatMessages' = PublishMessage(chatMessages,
          ChatMessage(MessageTypeSystem, TextOk, "system", MainConversation))
    /\ last' = NoCall
    /\ UNCHANGED <<slices, manager, consumers, web, done, loops, mu, calls, participants, build, agentConfigs, conversations, agents, chatResponses, offset>>

\* FlowManager.handleMessage on the next record of its group; the history
\* it appends to is the one StartConversationFlow was given
handleMessage ==
    /\ Pending(FlowGroup)
    /\ LET message == NextMessage(FlowGroup)
           stored == AddMessage(conversations, MainConversation, message)
       IN  IF build = "typed"
           THEN \E topic \in detectTopic(message.Content),
                   mood \in detectMood(message.Content) :
                    conversations' =
                        updateConversationMood(
                            updateConversationTopic(stored, MainConversation, topic),
                            MainConversation, mood)
           ELSE conversations' = stored
    /\ offset' = Consumed(FlowGroup)
    /\ last' = NoCall
    /\ UNCHANGED <<slices, manager, consumers, web, done, loops, mu, calls, participants, build, agentConfigs, agents, chatMessages, chatResponses>>

\* HandleMessage of the unified natural agent on the next record of its group
NaturalHandleMessage(a) ==
    /\ build = "unified"
    /\ a \in DOMAIN agents
    /\ agents[a].kind = "natural"
    /\ Pending(AgentGroup(a))
    /\ \E d \in SystemDraws, pick \in NaturalPicks :
        LET n == agents[a]
            message == NextMessage(AgentGroup(a))
            recent == GetRecentMessages(conversations, message.ConversationID,
                                        RecentLimit)
            reachesStore == message.AgentID # n.id /\ ~(d > n.responseChance)
            respond == shouldRespond(n, message, d, recent)
        IN  /\ respond => Len(chatMessages) < MaxLog
            /\ chatMessages' =
                  IF respond
                  THEN PublishMessage(chatMessages,
                          SendMessage(n, generateResponse(pick), message.ConversationID))
                  ELSE chatMessages
            /\ conversations' =
                  IF reachesStore
                  THEN GetOrCreateConversation(conversations, message.ConversationID)
                  ELSE conversations
            /\ last' = [op |-> "HandleMessage", agent |-> a, message |-> message,
                        draw |-> d, overhear |-> NoDraw, recent |-> recent,
                        relevant |-> TRUE, decided |-> TRUE, respond |-> respond,
                        published |-> respond]
    /\ offset' = Consumed(AgentGroup(a))
    /\ UNCHANGED <<slices, manager, consumers, web, done, loops, mu, calls, participants, build, agentConfigs, agents, chatResponses>>

\* HandleMessage of the unified echo agent: every record is answered
EchoHandleMessage(a) ==
    /\ build = "unified"
    /\ a \in DOMAIN agents
    /\ agents[a].kind = "echo"
    /\ Pending(AgentGroup(a))
    /\ Len(chatMessages) < MaxLog
    /\ LET n == agents[a]
           message == NextMessage(AgentGroup(a))
       IN  /\ chatMessages' = PublishMessage(chatMessages,
                  SendMessage(n, echoResponse(message.Content), message.ConversationID))
           /\ last' = [NoCall EXCEPT !.op = "HandleMessage", !.agent = a,
                                     !.message = message, !.published = TRUE]
    /\ offset' = Consumed(AgentGroup(a))
    /\ UNCHANGED <<slices, manager, consumers, web, done, loops, mu, calls, participants, build, agentConfigs, conversations, agents, chatResponses>>

\* BaseAgent.ProcessMessage of the typed build, user message, agent with a
\* personality: NaturalAgent.HandleUserMessage
PersonalityHandleUserMessage(a) ==
    /\ build = "typed"
    /\ a \in DOMAIN agents
    /\ agents[a].kind = "personality"
    /\ Pending(AgentGroup(a))
    /\ NextMessage(AgentGroup(a)).Type = MessageTypeUser
    /\ \E d \in SystemDraws, o \in OverhearDraws, pick \in CuriousPicks :
        LET n == agents[a]
            message == NextMessage(AgentGroup(a))
            relevant == IsRelevantToAgent(message, n.id, n.interests, n.personality, o)
            recent == GetRecentMessages(conversations, message.ConversationID,
                                        RecentLimit)
            reachesStore == relevant /\ message.AgentID # n.id
                               /\ ~(d > n.responseChance)
            respond == shouldRespondRelevant(n, message, relevant, d, recent)
        IN  /\ chatResponses' =
                  IF respond
                  THEN PublishChatResponse(chatResponses,
                          SendChatMessage(n, generateCuriousResponse(message.Content, pick),
                                          message.ConversationID))
                  ELSE chatResponses
            /\ conversations' =
                  IF reachesStore
                  THEN GetOrCreateConversation(conversations, message.ConversationID)
                  ELSE conversations
            /\ last' = [op |-> "HandleUserMessage", agent |-> a, message |-> message,
                        draw |-> d, overhear |-> o, recent |-> recent,
                        relevant |-> relevant, decided |-> TRUE, respond |-> respond,
                        published |-> respond]
    /\ offset' = Consumed(AgentGroup(a))
    /\ UNCHANGED <<slices, manager, consumers, web, done, loops, mu, calls, participants, build, agentConfigs, agents, chatMessages>>

\* BaseAgent.ProcessMessage of the typed build, system message, agent with a
\* personality: NaturalAgent.HandleSystemMessage answers without a decision
PersonalityHandleSystemMessage(a) ==
    /\ build = "typed"
    /\ a \in DOMAIN agents
    /\ agents[a].kind = "personality"
    /\ Pending(AgentGroup(a))
    /\ NextMessage(AgentGroup(a)).Type = MessageTypeSystem
    /\ \E pick \in CuriousPicks :
        LET n == agents[a]
            message == NextMessage(AgentGroup(a))
        IN  /\ chatResponses' = PublishChatResponse(chatResponses,
                  SendChatMessage(n, generateSystemResponse(pick), message.ConversationID))
            /\ last' = [NoCall EXCEPT !.op = "HandleSystemMessage", !.agent = a,
                                      !.message = message, !.published = TRUE]
    /\ offset' = Consumed(AgentGroup(a))
    /\ UNCHANGED <<slices, manager, consumers, web, done, loops, mu, calls, participants, build, agentConfigs, conversations, agents, chatMessages>>

\* BaseAgent.ProcessMessage of the typed build, user message, echo agent:
\* EchoAgent.HandleUserMessage
EchoHandleUserMessage(a) ==
    /\ build = "typed"
    /\ a \in DOMAIN agents
    /\ agents[a].kind = "typed-echo"
    /\ Pending(AgentGroup(a))
    /\ NextMessage(AgentGroup(a)).Type = MessageTypeUser
    /\ LET n == agents[a]
           message == NextMessage(AgentGroup(a))
       IN  /\ chatResponses' = PublishChatResponse(chatResponses,
                  SendChatMessage(n, echoResponse(message.Content), message.ConversationID))
           /\ last' = [NoCall EXCEPT !.op = "HandleUserMessage", !.agent = a,
                                     !.message = message, !.published = TRUE]
    /\ offset' = Consumed(AgentGroup(a))
    /\ UNCHANGED <<slices, manager, consumers, web, done, loops, mu, calls, participants, build, agentConfigs, conversations, agents, chatMessages>>

\* the message types an agent of the typed build has a handler for
handlers(n) ==
    IF n.kind = "personality"
    THEN {MessageTypeUser, MessageTypeAgent, MessageTypeSystem}
    ELSE {MessageTypeUser}

\* BaseAgent.ProcessMessage of the typed build when it returns nil: no
\* handler for the type, or a type the switch does not dispatch
ProcessMessageDropped(a) ==
    /\ build = "typed"
    /\ a \in DOMAIN agents
    /\ Pending(AgentGroup(a))
    /\ LET message == NextMessage(AgentGroup(a))
       IN  /\ \/ message.Type \notin handlers(agents[a])
              \/ message.Type \notin {MessageTypeUser, MessageTypeSystem}
           /\ last' = [NoCall EXCEPT !.op = "ProcessMessage", !.agent = a,
                                     !.message = message]
    /\ offset' = Consumed(AgentGroup(a))
    /\ UNCHANGED <<slices, manager, consumers, web, done, loops, mu, calls, participants, build, agentConfigs, conversations, agents, chatMessages,
                   chatResponses>>

Next ==
    \/ sendUserMessage
    \/ PublishSystemMessage
    \/ handleMessage
    \/ \E a \in {"a1", "echo-agent", "curious-agent"} :
          \/ NaturalHandleMessage(a)
          \/ EchoHandleMessage(a)
          \/ PersonalityHandleUserMessage(a)
          \/ PersonalityHandleSystemMessage(a)
          \/ EchoHandleUserMessage(a)
          \/ ProcessMessageDropped(a)

Spec == Init /\ [][Next]_vars

---------------------------------------------------------------------------
(* The Store under concurrent callers.  A goroutine inside a method of     *)
(* conversation.Manager moves from one lock operation or field access to   *)
(* the next; calls[t].pc is where it stands.                               *)

\* the slice expression conv.Messages[len(conv.Messages)-limit:] of
\* GetRecentMessages panics when its low bound is above the length
GetRecentMessagesPanics(convs, conversationID, limit) ==
    LET msgs == GetOrCreateConversation(convs, conversationID)[conversationID].Messages
    IN  ~(Len(msgs) <= limit) /\ Len(msgs) - limit > Len(msgs)

\* faulty variant of CanLockRegistry: the lock is not taken
CanLockRegistry_noLock(holder) == TRUE

\* m.mu.Lock(): the caller goes on once nobody holds the lock
CanLockRegistry(holder) == holder = ""

\* faulty variant of ReleaseRegistry: the lock is kept
ReleaseRegistry_keep(holder, t) == holder

\* m.mu.Unlock() by goroutine t
ReleaseRegistry(holder, t) == IF holder = t THEN "" ELSE holder

\* faulty variant of CanLock: the lock is not taken
CanLock_noLock(lock) == TRUE

\* conv.mu.Lock(): no writer and no reader inside
CanLock(lock) == lock.writer = "" /\ lock.readers = {}

\* faulty variant of Unlock: the lock is kept
Unlock_keep(lock, t) == lock

\* conv.mu.Unlock() by goroutine t
Unlock(lock, t) == [lock EXCEPT !.writer = IF @ = t THEN "" ELSE @]

\* conv.mu.RLock(): no writer inside
CanRLock(lock) == lock.writer = ""

\* what GetConversationStats returns before it has read anything
NoStats == [participants |-> 0, messages |-> 0, topic |-> "", mood |-> ""]

\* a goroutine outside the Store
Idle ==
    [op |-> "none", pc |-> "idle", conversationID |-> "", message |-> NoMessage,
     limit |-> 0, label |-> "", conv |-> 0, local |-> <<>>, result |-> <<>>,
     panicked |-> FALSE, stats |-> NoStats, stmt |-> 0, seq |-> 0,
     draw |-> NoDraw]

\* the methods that take the conversation's lock after GetOrCreateConversation,
\* and where each goes on once it has the conversation
AfterGetOrCreate(op) ==
    CASE op = "AddMessage" -> "conv_lock"
      [] op = "SetConversationTopic" -> "conv_lock"
      [] op = "SetConversationMood" -> "conv_lock"
      [] op = "GetRecentMessages" -> "conv_rlock"
      [] op = "GetConversationStats" -> "stats_read"
      [] OTHER -> "done"

\* where a method goes on once it holds conv.mu
AfterLock(op) ==
    CASE op = "AddMessage" -> "append_read"
      [] op = "SetConversationTopic" -> "set_topic"
      [] OTHER -> "set_mood"

At(t, pc) == t \in DOMAIN calls /\ calls[t].pc = pc
Goto(t, pc) == [calls EXCEPT ![t].pc = pc]

\* GetOrCreateConversation: m.mu.Lock()
LockRegistry(t) ==
    /\ At(t, "goc_lock")
    /\ CanLockRegistry(mu)
    /\ mu' = t
    /\ calls' = Goto(t, "goc_lookup")
    /\ UNCHANGED <<slices, manager, consumers, web, done, loops, participants, build, agentConfigs, conversations, agents, chatMessages,
                   chatResponses, offset, last>>

\* GetOrCreateConversation: the lookup in m.conversations
Lookup(t) ==
    /\ At(t, "goc_lookup")
    /\ calls' =
          IF calls[t].conversationID \in DOMAIN conversations
          THEN [calls EXCEPT ![t].pc = "goc_unlock",
                             ![t].conv = conversations[calls[t].conversationID].Gen]
          ELSE Goto(t, "goc_create")
    /\ UNCHANGED <<slices, manager, consumers, web, done, loops, mu, participants, build, agentConfigs, conversations, agents,
                   chatMessages, chatResponses, offset, last>>

\* GetOrCreateConversation: a new Conversation is put in the map; an object
\* the map already held for the id is replaced
Create(t) ==
    /\ At(t, "goc_create")
    /\ LET id == calls[t].conversationID
           gen == IF id \in DOMAIN conversations THEN conversations[id].Gen + 1 ELSE 1
       IN  /\ conversations' =
                 [c \in (DOMAIN conversations) \cup {id} |->
                    IF c = id THEN [NewConversation EXCEPT !.Gen = gen]
                    ELSE conversations[c]]
           /\ calls' = [calls EXCEPT ![t].pc = "goc_unlock", ![t].conv = gen]
    /\ UNCHANGED <<slices, manager, consumers, web, done, loops, mu, participants, build, agentConfigs, agents, chatMessages,
                   chatResponses, offset, last>>

\* GetOrCreateConversation: the deferred m.mu.Unlock(), and the return into
\* the calling method
UnlockRegistry(t) ==
    /\ At(t, "goc_unlock")
    /\ mu' = ReleaseRegistry(mu, t)
    /\ calls' = Goto(t, AfterGetOrCreate(calls[t].op))
    /\ UNCHANGED <<slices, manager, consumers, web, done, loops, participants, build, agentConfigs, conversations, agents, chatMessages,
                   chatResponses, offset, last>>

\* the conversation a goroutine obtained from GetOrCreateConversation
Conv(t) == conversations[calls[t].conversationID]
WithConv(t, conv) == [conversations EXCEPT ![calls[t].conversationID] = conv]

\* conv.mu.Lock() of AddMessage, SetConversationTopic, SetConversationMood
LockConversation(t) ==
    /\ At(t, "conv_lock")
    /\ CanLock(Conv(t).mu)
    /\ conversations' = WithConv(t, [Conv(t) EXCEPT !.mu.writer = t])
    /\ calls' = Goto(t, AfterLock(calls[t].op))
    /\ UNCHANGED <<slices, manager, consumers, web, done, loops, mu, participants, build, agentConfigs, agents, chatMessages,
                   chatResponses, offset, last>>

\* AddMessage: append reads the slice conv.Messages ...
AppendRead(t) ==
    /\ At(t, "append_read")
    /\ calls' = [calls EXCEPT ![t].pc = "append_write", ![t].local = Conv(t).Messages]
    /\ UNCHANGED <<slices, manager, consumers, web, done, loops, mu, participants, build, agentConfigs, conversations, agents,
                   chatMessages, chatResponses, offset, last>>

\* ... and conv.Messages becomes the slice read with the message at its end;
\* no Participant is in conv.Participants to have its LastSeen set
AppendWrite(t) ==
    /\ At(t, "append_write")
    /\ conversations' =
          WithConv(t, [Conv(t) EXCEPT !.Messages = Append(calls[t].local, calls[t].message)])
    /\ calls' = [calls EXCEPT ![t].pc = "conv_unlock", ![t].seq = @ + 1]
    /\ UNCHANGED <<slices, manager, consumers, web, done, loops, mu, participants, build, agentConfigs, agents, chatMessages,
                   chatResponses, offset, last>>

\* SetConversationTopic: conv.Topic = topic
SetConversationTopic(t) ==
    /\ At(t, "set_topic")
    /\ conversations' = WithConv(t, [Conv(t) EXCEPT !.Topic = calls[t].label])
    /\ calls' = Goto(t, "conv_unlock")
    /\ UNCHANGED <<slices, manager, consumers, web, done, loops, mu, participants, build, agentConfigs, agents, chatMessages,
                   chatResponses, offset, last>>

\* SetConversationMood: conv.Mood = mood
SetConversationMood(t) ==
    /\ At(t, "set_mood")
    /\ conversations' = WithConv(t, [Conv(t) EXCEPT !.Mood = calls[t].label])
    /\ calls' = Goto(t, "conv_unlock")
    /\ UNCHANGED <<slices, manager, consumers, web, done, loops, mu, participants, build, agentConfigs, agents, chatMessages,
                   chatResponses, offset, last>>

\* the deferred conv.mu.Unlock()
UnlockConversation(t) ==
    /\ At(t, "conv_unlock")
    /\ conversations' = WithConv(t, [Conv(t) EXCEPT !.mu = Unlock(@, t)])
    /\ calls' = Goto(t, "done")
    /\ UNCHANGED <<slices, manager, consumers, web, done, loops, mu, participants, build, agentConfigs, agents, chatMessages,
                   chatResponses, offset, last>>

\* conv.mu.RLock() of GetRecentMessages
RLockConversation(t) ==
    /\ At(t, "conv_rlock")
    /\ CanRLock(Conv(t).mu)
    /\ conversations' = WithConv(t, [Conv(t) EXCEPT !.mu.readers = @ \cup {t}])
    /\ calls' = Goto(t, "recent_read")
    /\ UNCHANGED <<slices, manager, consumers, web, done, loops, mu, participants, build, agentConfigs, agents, chatMessages,
                   chatResponses, offset, last>>

\* GetRecentMessages: the slice it returns, or the panic of the slice
\* expression
RecentRead(t) ==
    /\ At(t, "recent_read")
    /\ LET id == calls[t].conversationID
           limit == calls[t].limit
       IN  calls' =
             IF GetRecentMessagesPanics(conversations, id, limit)
             THEN [calls EXCEPT ![t].pc = "conv_runlock", ![t].panicked = TRUE]
             ELSE [calls EXCEPT ![t].pc = "conv_runlock",
                                ![t].result = GetRecentMessages(conversations, id, limit)]
    /\ UNCHANGED <<slices, manager, consumers, web, done, loops, mu, participants, build, agentConfigs, conversations, agents,
                   chatMessages, chatResponses, offset, last>>

\* the deferred conv.mu.RUnlock()
RUnlockConversation(t) ==
    /\ At(t, "conv_runlock")
    /\ conversations' = WithConv(t, [Conv(t) EXCEPT !.mu.readers = @ \ {t}])
    /\ calls' = Goto(t, "done")
    /\ UNCHANGED <<slices, manager, consumers, web, done, loops, mu, participants, build, agentConfigs, agents, chatMessages,
                   chatResponses, offset, last>>

\* FlowManager.GetConversationStats: the fields of the Conversation that
\* GetConversationContext returned are read with no lock held
StatsRead(t) ==
    /\ At(t, "stats_read")
    /\ calls' = [calls EXCEPT
                   ![t].pc = "done",
                   ![t].stats = [participants |-> Cardinality(DOMAIN Conv(t).Participants),
                                 messages |-> Len(Conv(t).Messages),
                                 topic |-> Conv(t).Topic, mood |-> Conv(t).Mood]]
    /\ UNCHANGED <<slices, manager, consumers, web, done, loops, mu, participants, build, agentConfigs, conversations, agents,
                   chatMessages, chatResponses, offset, last>>

---------------------------------------------------------------------------
(* SpecStore: two goroutines call the methods of the Store, on the same    *)
(* and on different conversations, with drawn arguments.                   *)

StoreGoroutines == {"g1", "g2"}
StoreConversations(t) ==
    IF t = "g1" THEN {MainConversation, SideConversation} ELSE {MainConversation}
Limits == {0 - 1, 0, 2}
TopicLabels == {"art"}
MoodLabels == {"happy"}

HistoryLen(c) ==
    IF c \in DOMAIN conversations THEN Len(conversations[c].Messages) ELSE 0

\* the appends begun so far: those stored and those still before their write
AppendsBegun ==
    HistoryLen(MainConversation) + HistoryLen(SideConversation)
      + Cardinality({t \in DOMAIN calls :
            calls[t].op = "AddMessage" /\ calls[t].pc \notin {"conv_unlock", "done"}})

\* the frame of a goroutine that enters a method of the Store
Enter(t, op, conversationID) ==
    [Idle EXCEPT !.op = op, !.pc = "goc_lock", !.conversationID = conversationID,
                 !.seq = calls[t].seq, !.stmt = calls[t].stmt]

InitStore ==
    /\ build = "typed"
    /\ agentConfigs = NoConfigs
    /\ agents = [a \in {} |-> "nil"]
    /\ conversations = EmptyRegistry
    /\ chatMessages = <<>>
    /\ chatResponses = <<>>
    /\ offset = [c \in {} |-> 0]
    /\ last = NoCall
    /\ mu = ""
    /\ calls = [t \in StoreGoroutines |-> Idle]
    /\ participants = NoParticipants
    /\ done = {}
    /\ loops = Subscriptions(agents)
    /\ consumers = NoConsumers
    /\ web = NoWeb
    /\ slices = NoSlices
    /\ manager = NoManager

\* a goroutine calls a method of the Store
CallStore(t) ==
    /\ At(t, "idle")
    /\ \E id \in StoreConversations(t) :
          \/ /\ AppendsBegun < MaxAppends
             /\ calls' = [calls EXCEPT ![t] =
                   [Enter(t, "AddMessage", id) EXCEPT
                       !.message = ChatMessage(MessageTypeUser, TextOk, t, id)]]
          \/ \E limit \in Limits :
                calls' = [calls EXCEPT ![t] =
                   [Enter(t, "GetRecentMessages", id) EXCEPT !.limit = limit]]
          \/ \E topic \in TopicLabels :
                calls' = [calls EXCEPT ![t] =
                   [Enter(t, "SetConversationTopic", id) EXCEPT !.label = topic]]
          \/ \E mood \in MoodLabels :
                calls' = [calls EXCEPT ![t] =
                   [Enter(t, "SetConversationMood", id) EXCEPT !.label = mood]]
          \/ calls' = [calls EXCEPT ![t] = Enter(t, "GetConversationStats", id)]
          \/ calls' = [calls EXCEPT ![t] = Enter(t, "GetOrCreateConversation", id)]
    /\ UNCHANGED <<slices, manager, consumers, web, done, loops, mu, participants, build, agentConfigs, conversations, agents,
                   chatMessages, chatResponses, offset, last>>

\* the method returns to its caller
ReturnStore(t) ==
    /\ At(t, "done")
    /\ calls[t].stmt = 0
    /\ calls' = [calls EXCEPT ![t] = [Idle EXCEPT !.seq = calls[t].seq]]
    /\ UNCHANGED <<slices, manager, consumers, web, done, loops, mu, participants, build, agentConfigs, conversations, agents,
                   chatMessages, chatResponses, offset, last>>

\* one step of a goroutine inside the Store
StoreStep(t) ==
    \/ LockRegistry(t)
    \/ Lookup(t)
    \/ Create(t)
    \/ UnlockRegistry(t)
    \/ LockConversation(t)
    \/ AppendRead(t)
    \/ AppendWrite(t)
    \/ SetConversationTopic(t)
    \/ SetConversationMood(t)
    \/ UnlockConversation(t)
    \/ RLockConversation(t)
    \/ RecentRead(t)
    \/ RUnlockConversation(t)
    \/ StatsRead(t)

NextStore ==
    \E t \in StoreGoroutines :
        \/ CallStore(t)
        \/ StoreStep(t)
        \/ ReturnStore(t)

SpecStore == InitStore /\ [][NextStore]_vars

---------------------------------------------------------------------------
(* The flow manager over the Store.  handleMessage runs in the goroutine   *)
(* StartConversationFlow starts; calls["flow"].stmt counts the statements  *)
(* of handleMessage already begun for the record at the offset of its      *)
(* group.                                                                  *)

FlowGoroutine == "flow"

TextWowAI == <<"W","o","w"," ","A","I">>
TextAIData == <<"A","I"," ","d","a","t","a">>

\* faulty variant of handleMessageBody: the topic is updated before the
\* message is stored
handleMessageBody_topicFirst ==
    <<"updateConversationTopic", "AddMessage", "updateConversationMood">>

\* faulty variant of handleMessageBody: the message is not stored
handleMessageBody_noAppend ==
    <<"updateConversationTopic", "updateConversationMood">>

\* the statements of FlowManager.handleMessage in program order
handleMessageBody ==
    IF build = "typed"
    THEN <<"AddMessage", "updateConversationTopic", "updateConversationMood">>
    ELSE <<"AddMessage">>

\* the labels a statement of handleMessage can detect in the content
detected(statement, content) ==
    CASE statement = "updateConversationTopic" -> detectTopic(content)
      [] statement = "updateConversationMood" -> detectMood(content)
      [] OTHER -> {""}

\* faulty variant of updateConversation: the label is written when it is empty
updateConversation_always(statement, label) ==
    CASE statement = "AddMessage" -> "AddMessage"
      [] statement = "updateConversationTopic" -> "SetConversationTopic"
      [] OTHER -> "SetConversationMood"

\* the method of the Store a statement of handleMessage calls, "" when
\* updateConversationTopic / updateConversationMood detected no label
updateConversation(statement, label) ==
    CASE statement = "AddMessage" -> "AddMessage"
      [] statement = "updateConversationTopic" ->
            IF label # "" THEN "SetConversationTopic" ELSE ""
      [] OTHER ->
            IF label # "" THEN "SetConversationMood" ELSE ""

\* the Participant RegisterParticipant builds
Participant(participantID, participantType) ==
    [ID |-> participantID, Type |-> participantType, IsActive |-> TRUE]

\* f.participants[participantID] = &Participant{...}
Registered(ps, participantID, participantType) ==
    [p \in (DOMAIN ps) \cup {participantID} |->
        IF p = participantID THEN Participant(participantID, participantType)
        ELSE ps[p]]

\* FlowManager.StartConversationFlow: the user is registered and the
\* goroutine of the subscription starts
StartConversationFlow ==
    /\ FlowGoroutine \notin DOMAIN calls
    /\ participants' = Registered(participants, "user", "user")
    /\ calls' = [t \in (DOMAIN calls) \cup {FlowGoroutine} |->
                    IF t = FlowGoroutine THEN Idle ELSE calls[t]]
    /\ UNCHANGED <<slices, manager, consumers, web, done, loops, mu, build, agentConfigs, conversations, agents, chatMessages,
                   chatResponses, offset, last>>

\* FlowManager.RegisterParticipant as main calls it for an agent
RegisterParticipant ==
    /\ FlowGoroutine \in DOMAIN calls
    /\ \E participantID \in {"curious-agent"} :
          /\ participantID \notin DOMAIN participants
          /\ participants' = Registered(participants, participantID, "agent")
    /\ UNCHANGED <<slices, manager, consumers, web, done, loops, mu, calls, build, agentConfigs, conversations, agents, chatMessages,
                   chatResponses, offset, last>>

\* handleMessage goes on to its next statement for the record it handles
handleMessageStatement ==
    /\ At(FlowGoroutine, "idle")
    /\ Pending(FlowGroup)
    /\ calls[FlowGoroutine].stmt < Len(handleMessageBody)
    /\ LET message == NextMessage(FlowGroup)
           statement == handleMessageBody[calls[FlowGoroutine].stmt + 1]
       IN  \E label \in detected(statement, message.Content) :
              LET op == updateConversation(statement, label)
              IN  calls' = [calls EXCEPT ![FlowGoroutine] =
                     IF op = ""
                     THEN [@ EXCEPT !.stmt = @ + 1]
                     ELSE [Enter(FlowGoroutine, op, MainConversation) EXCEPT
                              !.message = message, !.label = label, !.stmt = @ + 1]]
    /\ UNCHANGED <<slices, manager, consumers, web, done, loops, mu, participants, build, agentConfigs, conversations, agents,
                   chatMessages, chatResponses, offset, last>>

\* the method of the Store returns into handleMessage
handleMessageResume ==
    /\ At(FlowGoroutine, "done")
    /\ calls' = [calls EXCEPT ![FlowGoroutine] =
                    [Idle EXCEPT !.seq = calls[FlowGoroutine].seq,
                                 !.stmt = calls[FlowGoroutine].stmt]]
    /\ UNCHANGED <<slices, manager, consumers, web, done, loops, mu, participants, build, agentConfigs, conversations, agents,
                   chatMessages, chatResponses, offset, last>>

\* handleMessage returns nil and the reader commits the record
handleMessageReturn ==
    /\ At(FlowGoroutine, "idle")
    /\ Pending(FlowGroup)
    /\ calls[FlowGoroutine].stmt = Len(handleMessageBody)
    /\ calls' = [calls EXCEPT ![FlowGoroutine].stmt = 0]
    /\ offset' = Consumed(FlowGroup)
    /\ UNCHANGED <<slices, manager, consumers, web, done, loops, mu, participants, build, agentConfigs, conversations, agents,
                   chatMessages, chatResponses, last>>

---------------------------------------------------------------------------
(* SpecFlow: the flow manager of the typed build handles the records of    *)
(* the topic while another goroutine reads the conversation.               *)

FlowContents == {TextWowAI, TextAIData, TextOk}
FlowSenders ==
    {<<MessageTypeUser, "u1">>, <<MessageTypeAgent, "curious-agent">>,
     <<MessageTypeSystem, "system">>}
Observer == "obs"

InitFlow ==
    /\ build = "typed"
    /\ agentConfigs = NoConfigs
    /\ agents = [a \in {} |-> "nil"]
    /\ conversations = EmptyRegistry
    /\ chatMessages = <<>>
    /\ chatResponses = <<>>
    /\ offset = [g \in {FlowGroup} |-> 0]
    /\ last = NoCall
    /\ mu = ""
    /\ calls = [t \in {Observer} |-> Idle]
    /\ participants = NoParticipants
    /\ done = {}
    /\ loops = Subscriptions(agents)
    /\ consumers = NoConsumers
    /\ web = NoWeb
    /\ slices = NoSlices
    /\ manager = NoManager

\* the records a producer can write: a content from each sender, a record
\* with empty content and a record with no conversation id
FlowMessages ==
    {ChatMessage(sender[1], content, sender[2], MainConversation) :
        content \in FlowContents, sender \in FlowSenders}
      \cup {ChatMessage(MessageTypeUser, TextEmpty, "u1", MainConversation),
             ChatMessage(MessageTypeUser, TextOk, "u1", ""),
             ChatMessage(MessageTypeUser, TextOk, "u1", SideConversation)}

\* a producer writes a record on the chat-messages topic
ProduceMessage ==
    /\ Len(chatMessages) < MaxSent
    /\ \E message \in FlowMessages :
          chatMessages' = PublishMessage(chatMessages, message)
    /\ UNCHANGED <<slices, manager, consumers, web, done, loops, mu, calls, participants, build, agentConfigs, conversations, agents,
                   chatResponses, offset, last>>

\* another goroutine reads the conversation
Observe(t) ==
    /\ At(t, "idle")
    /\ \/ calls' = [calls EXCEPT ![t] =
             [Enter(t, "GetRecentMessages", MainConversation) EXCEPT !.limit = RecentLimit]]
       \/ calls' = [calls EXCEPT ![t] = Enter(t, "GetConversationStats", MainConversation)]
    /\ UNCHANGED <<slices, manager, consumers, web, done, loops, mu, participants, build, agentConfigs, conversations, agents,
                   chatMessages, chatResponses, offset, last>>

NextFlow ==
    \/ StartConversationFlow
    \/ RegisterParticipant
    \/ ProduceMessage
    \/ handleMessageStatement
    \/ handleMessageResume
    \/ handleMessageReturn
    \/ StoreStep(FlowGoroutine)
    \/ Observe(Observer)
    \/ StoreStep(Observer)
    \/ ReturnStore(Observer)

SpecFlow == InitFlow /\ [][NextFlow]_vars

---------------------------------------------------------------------------
(* The contexts and the subscription loop of an agent *)

\* the context main passes to Start
StartContext == "main"
\* the context NewBaseAgent derives from context.Background(), cancelled
\* by a.cancel
AgentContext(a) == a

\* SubscribeToMessages: a loop of the agent runs and the context it was
\* given is not cancelled
Consuming(a) == a \in DOMAIN loops /\ loops[a] > 0 /\ StartContext \notin done

\* producer.WriteMessages(ctx, ...): with a live context the record is
\* written; with a cancelled one it may be or not
Written == IF StartContext \in done THEN {TRUE, FALSE} ELSE {TRUE}

\* faulty variant of Stop: an agent that is not running is an error
Stop_strict(n) ==
    IF ~n.running THEN [agent |-> n, cancel |-> FALSE, err |-> "not running"]
    ELSE [agent |-> [n EXCEPT !.running = FALSE], cancel |-> TRUE, err |-> ""]

\* BaseAgent.Stop: the agent after the call, whether a.cancel was called,
\* and the error returned
Stop(n) ==
    IF ~n.running THEN [agent |-> n, cancel |-> FALSE, err |-> ""]
    ELSE [agent |-> [n EXCEPT !.running = FALSE], cancel |-> TRUE, err |-> ""]

---------------------------------------------------------------------------
(* SpecScenarioB: two natural agents of the unified build with response    *)
(* chance 1.0 and the flow manager, each in its own goroutine, over the    *)
(* locks of the Store.                                                     *)

ScenarioAgents == {"a1", "a2"}
CertainChance == 10
ScenarioPicks == {9}
ScenarioContents == {TextHiQ}

InitScenarioB ==
    /\ build = "unified"
    /\ agentConfigs = [a \in ScenarioAgents |-> NaturalAgentConfig(a, CertainChance)]
    /\ agents = [a \in ScenarioAgents |-> Start(createNaturalAgent(agentConfigs[a]))]
    /\ conversations = EmptyRegistry
    /\ chatMessages = <<>>
    /\ chatResponses = <<>>
    /\ offset = [g \in {FlowGroup} \cup ScenarioAgents |-> 0]
    /\ last = NoCall
    /\ mu = ""
    /\ calls = [t \in {FlowGoroutine} \cup ScenarioAgents |-> Idle]
    /\ participants = Registered(NoParticipants, "user", "user")
    /\ done = {}
    /\ loops = Subscriptions(agents)
    /\ consumers = NoConsumers
    /\ web = NoWeb
    /\ slices = NoSlices
    /\ manager = NoManager

\* NaturalAgent.HandleMessage on the next record of the agent's group, up to
\* the call of GetRecentMessages in shouldRespond; a message of the agent
\* itself or a draw above the chance ends the call before it
HandleMessageCall(a) ==
    /\ build = "unified"
    /\ a \in DOMAIN agents
    /\ agents[a].kind = "natural"
    /\ At(a, "idle")
    /\ Consuming(a)
    /\ Pending(AgentGroup(a))
    /\ \E d \in SystemDraws :
        LET n == agents[a]
            message == NextMessage(AgentGroup(a))
        IN  IF message.AgentID = n.id \/ d > n.responseChance
            THEN /\ offset' = Consumed(AgentGroup(a))
                 /\ last' = [op |-> "HandleMessage", agent |-> a, message |-> message,
                             draw |-> d, overhear |-> NoDraw, recent |-> <<>>,
                             relevant |-> TRUE, decided |-> TRUE,
                             respond |-> shouldRespond(n, message, d, <<>>),
                             published |-> FALSE]
                 /\ UNCHANGED calls
            ELSE /\ calls' = [calls EXCEPT ![a] =
                        [Enter(a, "GetRecentMessages", message.ConversationID) EXCEPT
                            !.limit = RecentLimit, !.message = message, !.draw = d]]
                 /\ UNCHANGED <<offset, last>>
    /\ UNCHANGED <<slices, manager, consumers, web, done, loops, mu, participants, build, agentConfigs, conversations, agents,
                   chatMessages, chatResponses>>

\* GetRecentMessages has returned: the rest of shouldRespond, generateResponse
\* and SendMessage; then the reader commits the record
HandleMessageReturn(a) ==
    /\ a \in DOMAIN agents
    /\ At(a, "done")
    /\ calls[a].op = "GetRecentMessages"
    /\ \E pick \in ScenarioPicks, written \in Written :
        LET n == agents[a]
            message == calls[a].message
            recent == calls[a].result
            respond == shouldRespond(n, message, calls[a].draw, recent)
        IN  /\ respond => Len(chatMessages) < MaxScenarioLog
            /\ chatMessages' =
                  IF respond /\ written
                  THEN PublishMessage(chatMessages,
                          SendMessage(n, generateResponse(pick), message.ConversationID))
                  ELSE chatMessages
            /\ last' = [op |-> "HandleMessage", agent |-> a, message |-> message,
                        draw |-> calls[a].draw, overhear |-> NoDraw, recent |-> recent,
                        relevant |-> TRUE, decided |-> TRUE, respond |-> respond,
                        published |-> respond /\ written]
    /\ offset' = Consumed(AgentGroup(a))
    /\ calls' = [calls EXCEPT ![a] = [Idle EXCEPT !.seq = calls[a].seq]]
    /\ UNCHANGED <<slices, manager, consumers, web, done, loops, mu, participants, build, agentConfigs, conversations, agents,
                   chatResponses>>

\* one step of a goroutine inside AddMessage
AddMessageStep(t) ==
    \/ LockRegistry(t)
    \/ Lookup(t)
    \/ Create(t)
    \/ UnlockRegistry(t)
    \/ LockConversation(t)
    \/ AppendRead(t)
    \/ AppendWrite(t)
    \/ UnlockConversation(t)

\* one step of a goroutine inside GetRecentMessages
GetRecentMessagesStep(t) ==
    \/ LockRegistry(t)
    \/ Lookup(t)
    \/ Create(t)
    \/ UnlockRegistry(t)
    \/ RLockConversation(t)
    \/ RecentRead(t)
    \/ RUnlockConversation(t)

\* one step of the goroutine of the flow manager
FlowStep ==
    \/ handleMessageStatement
    \/ AddMessageStep(FlowGoroutine)
    \/ handleMessageResume
    \/ handleMessageReturn

\* one step of the goroutine of an agent
AgentStep(a) ==
    \/ HandleMessageCall(a)
    \/ GetRecentMessagesStep(a)
    \/ HandleMessageReturn(a)

\* Server.sendUserMessage for the one message of the scenario
sendTriggerMessage ==
    /\ chatMessages = <<>>
    /\ \E content \in ScenarioContents, userID \in Users :
          chatMessages' = PublishMessage(chatMessages,
              ChatMessage(MessageTypeUser, content, userID, MainConversation))
    /\ UNCHANGED <<slices, manager, consumers, web, done, loops, mu, calls, participants, build, agentConfigs, conversations, agents,
                   chatResponses, offset, last>>

NextScenarioB ==
    \/ sendTriggerMessage
    \/ FlowStep
    \/ \E a \in ScenarioAgents : AgentStep(a)

\* where every goroutine stands and what every reader has committed: each
\* step of a goroutine changes it
positions == <<offset, [t \in DOMAIN calls |-> calls[t].pc]>>

\* the Go scheduler runs every goroutine that can run
FairScenarioB ==
    /\ WF_positions(FlowStep)
    /\ \A a \in ScenarioAgents : WF_positions(AgentStep(a))

SpecScenarioB == InitScenarioB /\ [][NextScenarioB]_vars /\ FairScenarioB

---------------------------------------------------------------------------
(* SpecRuntime: the lifecycle of a BaseAgent of the unified build.  main   *)
(* constructs a natural agent, starts and stops it and may cancel the      *)
(* context it passed to Start; a user writes messages in two               *)
(* conversations.                                                          *)

RuntimeAgents == {"a1"}
RuntimeMessages ==
    {ChatMessage(MessageTypeUser, TextOk, "u1", c) :
        c \in {MainConversation, SideConversation}}

InitRuntime ==
    /\ build = "unified"
    /\ agentConfigs = [a \in RuntimeAgents |-> NaturalAgentConfig(a, CertainChance)]
    /\ agents = [a \in RuntimeAgents |-> createNaturalAgent(agentConfigs[a])]
    /\ conversations = EmptyRegistry
    /\ chatMessages = <<>>
    /\ chatResponses = <<>>
    /\ offset = [g \in RuntimeAgents |-> 0]
    /\ last = NoCall
    /\ mu = ""
    /\ calls = [t \in RuntimeAgents |-> Idle]
    /\ participants = NoParticipants
    /\ done = {}
    /\ loops = Subscriptions(agents)
    /\ consumers = NoConsumers
    /\ web = NoWeb
    /\ slices = NoSlices
    /\ manager = NoManager

\* BaseAgent.Start: an error for a running agent; otherwise running is set
\* and one more goroutine subscribes with the context of the caller
StartAgent(a) ==
    /\ a \in DOMAIN agents
    /\ IF agents[a].running
       THEN /\ last' = [op |-> "Start", agent |-> a, wasRunning |-> TRUE,
                        err |-> "already running"]
            /\ UNCHANGED <<agents, loops>>
       ELSE /\ loops[a] < MaxLoops
            /\ agents' = [agents EXCEPT ![a] = Start(@)]
            /\ loops' = [loops EXCEPT ![a] = @ + 1]
            /\ last' = [op |-> "Start", agent |-> a, wasRunning |-> FALSE, err |-> ""]
    /\ UNCHANGED <<slices, manager, consumers, web, done, mu, calls, participants, build, agentConfigs, conversations,
                   chatMessages, chatResponses, offset>>

\* BaseAgent.Stop
StopAgent(a) ==
    /\ a \in DOMAIN agents
    /\ LET stopped == Stop(agents[a])
       IN  /\ agents' = [agents EXCEPT ![a] = stopped.agent]
           /\ done' = IF stopped.cancel THEN done \cup {AgentContext(a)} ELSE done
           /\ last' = [op |-> "Stop", agent |-> a, wasRunning |-> agents[a].running,
                       err |-> stopped.err]
    /\ UNCHANGED <<slices, manager, consumers, web, loops, mu, calls, participants, build, agentConfigs, conversations,
                   chatMessages, chatResponses, offset>>

\* main cancels the context it passed to Start
CancelContext ==
    /\ StartContext \notin done
    /\ done' = done \cup {StartContext}
    /\ UNCHANGED <<slices, manager, consumers, web, loops, mu, calls, participants, build, agentConfigs, conversations,
                   agents, chatMessages, chatResponses, offset, last>>

\* SubscribeToMessages: case <-ctx.Done(): return ctx.Err()
LoopExit(a) ==
    /\ At(a, "idle")
    /\ loops[a] > 0
    /\ StartContext \in done
    /\ loops' = [loops EXCEPT ![a] = @ - 1]
    /\ UNCHANGED <<slices, manager, consumers, web, done, mu, calls, participants, build, agentConfigs, conversations,
                   agents, chatMessages, chatResponses, offset, last>>

\* Server.sendUserMessage for one of the two conversations
sendRuntimeMessage ==
    /\ Len(chatMessages) < MaxLog
    /\ Sent(chatMessages) < MaxSent
    /\ \E message \in RuntimeMessages :
          chatMessages' = PublishMessage(chatMessages, message)
    /\ last' = NoCall
    /\ UNCHANGED <<slices, manager, consumers, web, done, loops, mu, calls, participants, build, agentConfigs,
                   conversations, agents, chatResponses, offset>>

NextRuntime ==
    \/ sendRuntimeMessage
    \/ CancelContext
    \/ \E a \in RuntimeAgents :
          \/ StartAgent(a)
          \/ StopAgent(a)
          \/ LoopExit(a)
          \/ AgentStep(a)

SpecRuntime == InitRuntime /\ [][NextRuntime]_vars

---------------------------------------------------------------------------
(* SpecLLM: the two generations of LLMAgent.HandleMessage.  The backend    *)
(* (Ollama or OpenAI) answers a request with a text or with an error.      *)

\* the text HandleMessage of the first generation sends when generateResponse
\* returns an error
LLMApology ==
    <<"I","'","m"," ","s","o","r","r","y",","," ","I","'","m"," ","h",
      "a","v","i","n","g"," ","t","r","o","u","b","l","e"," ","p","r",
      "o","c","e","s","s","i","n","g"," ","y","o","u","r"," ","r","e",
      "q","u","e","s","t"," ","r","i","g","h","t"," ","n","o","w",".",
      " ","P","l","e","a","s","e"," ","t","r","y"," ","a","g","a","i",
      "n"," ","l","a","t","e","r",".">>

\* a text the backend returns
LLMText == <<"S","u","r","e",".">>
\* generateMockResponse: one of its texts, for a provider that is neither
\* ollama nor openai
LLMMockText == <<"(","M","o","c","k"," ","r","e","s","p","o","n","s","e",")">>

Providers == {"ollama", "mock"}
BackendOutcomes == {"ok", "error"}

\* NewLLMAgent of the first generation
NewLLMAgent(id, name, provider) ==
    [id |-> id, name |-> name, kind |-> "llm", personality |-> "",
     interests |-> <<>>, responseChance |-> 0, running |-> FALSE,
     provider |-> provider]

\* NewLLMAgent of the generation that reads the conversation history
NewLLMAgentWithHistory(id, name, provider, responseChance) ==
    [id |-> id, name |-> name, kind |-> "llm-history", personality |-> "",
     interests |-> <<>>, responseChance |-> responseChance, running |-> FALSE,
     provider |-> provider]

\* LLMAgent.generateResponse: the text and the error it returns, for what
\* the backend did with the request
generateLLMResponse(n, outcome) ==
    LET provider == IF n.provider = "" THEN "ollama" ELSE n.provider
    IN  IF provider \in {"ollama", "openai"}
        THEN IF outcome = "ok" THEN [response |-> LLMText, err |-> ""]
             ELSE [response |-> <<>>, err |-> "request failed"]
        ELSE IF n.kind = "llm" THEN [response |-> LLMMockText, err |-> ""]
        ELSE [response |-> <<>>, err |-> "unsupported LLM provider"]

LLMAgents == {"llm-1", "llm-2"}

InitLLM ==
    /\ build = "unified"
    /\ agentConfigs = NoConfigs
    /\ \E p1 \in Providers, p2 \in Providers :
          agents = [a \in LLMAgents |->
                      Start(IF a = "llm-1" THEN NewLLMAgent(a, "LLM Agent", p1)
                            ELSE NewLLMAgentWithHistory(a, "LLM Agent", p2,
                                                        CertainChance))]
    /\ conversations = EmptyRegistry
    /\ chatMessages = <<>>
    /\ chatResponses = <<>>
    /\ offset = [g \in LLMAgents |-> 0]
    /\ last = NoCall
    /\ mu = ""
    /\ calls = NoGoroutines
    /\ participants = NoParticipants
    /\ done = {}
    /\ loops = Subscriptions(agents)
    /\ consumers = NoConsumers
    /\ web = NoWeb
    /\ slices = NoSlices
    /\ manager = NoManager

\* LLMAgent.HandleMessage of the first generation on the next record of the
\* agent's group: an error of generateResponse is replaced by the apology,
\* and the text is sent
LLMHandleMessage(a) ==
    /\ a \in DOMAIN agents
    /\ agents[a].kind = "llm"
    /\ Consuming(a)
    /\ Pending(AgentGroup(a))
    /\ Len(chatMessages) < MaxLog
    /\ \E outcome \in BackendOutcomes :
        LET n == agents[a]
            message == NextMessage(AgentGroup(a))
            generated == generateLLMResponse(n, outcome)
            response == IF generated.err # "" THEN LLMApology ELSE generated.response
        IN  /\ chatMessages' =
                  PublishMessage(chatMessages,
                                 SendMessage(n, response, message.ConversationID))
            /\ last' = [op |-> "LLMHandleMessage", agent |-> a, message |-> message,
                        err |-> generated.err, published |-> TRUE]
    /\ offset' = Consumed(AgentGroup(a))
    /\ UNCHANGED <<slices, manager, consumers, web, done, loops, mu, calls, participants, build, agentConfigs,
                   conversations, agents, chatResponses>>

\* LLMAgent.HandleMessage of the generation that reads the history: on an
\* error of generateResponse it returns nil and sends nothing
LLMHistoryHandleMessage(a) ==
    /\ a \in DOMAIN agents
    /\ agents[a].kind = "llm-history"
    /\ Consuming(a)
    /\ Pending(AgentGroup(a))
    /\ \E outcome \in BackendOutcomes :
        LET n == agents[a]
            message == NextMessage(AgentGroup(a))
            generated == generateLLMResponse(n, outcome)
            sends == generated.err = ""
        IN  /\ sends => Len(chatMessages) < MaxLog
            /\ chatMessages' =
                  IF sends
                  THEN PublishMessage(chatMessages,
                          SendMessage(n, generated.response, message.ConversationID))
                  ELSE chatMessages
            /\ conversations' =
                  GetOrCreateConversation(conversations, message.ConversationID)
            /\ last' = [op |-> "LLMHandleMessage", agent |-> a, message |-> message,
                        err |-> generated.err, published |-> sends]
    /\ offset' = Consumed(AgentGroup(a))
    /\ UNCHANGED <<slices, manager, consumers, web, done, loops, mu, calls, participants, build, agentConfigs, agents,
                   chatResponses>>

NextLLM ==
    \/ sendUserMessage
    \/ \E a \in LLMAgents :
          \/ LLMHandleMessage(a)
          \/ LLMHistoryHandleMessage(a)

SpecLLM == InitLLM /\ [][NextLLM]_vars

---------------------------------------------------------------------------
(* SpecBus: the subscription loops of the Kafka client over chat-messages. *)
(* Every caller of SubscribeToChatMessages reads in the group               *)
(* "philoking-agents"; an agent reads in the group of its id.  A record at  *)
(* the offset of a group goes to one member of the group.                   *)

MaxBusLog == 2

FlowConsumer == "flow"
WebConsumer == "web"
BusAgent == "echo-agent"
BusConsumers == {FlowConsumer, WebConsumer, BusAgent}

\* Reader.GroupID of the loop each consumer runs
GroupOf(c) == IF c \in {FlowConsumer, WebConsumer} THEN FlowGroup ELSE AgentGroup(c)

\* startMessageConsumer subscribes with context.Background(); the flow
\* manager and the agents with the context of main
BackgroundContext == "background"
ContextOf(c) == IF c = WebConsumer THEN BackgroundContext ELSE StartContext

\* a payload that is not the JSON of a ChatMessage
Garbage == [NoMessage EXCEPT !.Type = "garbage", !.Content = <<"{">>]

\* ChatMessage.FromJSON of a payload
FromJSON(value) ==
    IF value = Garbage THEN [err |-> "invalid character", message |-> NoMessage]
    ELSE [err |-> "", message |-> value]

\* faulty variant of SelectCase: the loop does not look at ctx.Done()
SelectCase_noDone(cancelled) == "read"

\* select { case <-ctx.Done(): return ctx.Err(); default: ... }
SelectCase(cancelled) == IF cancelled THEN "returned" ELSE "read"

\* faulty variant of AfterHandler: an error of the handler ends the loop
AfterHandler_return(err) == IF err # "" THEN "returned" ELSE "select"

\* after handler(&chatMsg): the error is logged, the loop goes on
AfterHandler(err) == "select"

NewConsumer(c) ==
    [group |-> GroupOf(c), ctx |-> ContextOf(c), pc |-> "select", msg |-> NoMessage,
     read |-> <<>>, handled |-> <<>>, err |-> "", retried |-> FALSE]

InitBus ==
    /\ build = "unified"
    /\ agentConfigs = NoConfigs
    /\ agents = [a \in {BusAgent} |-> Start(NewEchoAgent("echo"))]
    /\ conversations = EmptyRegistry
    /\ chatMessages = <<>>
    /\ chatResponses = <<>>
    /\ offset = [g \in {GroupOf(c) : c \in BusConsumers} |-> 0]
    /\ last = NoCall
    /\ mu = ""
    /\ calls = NoGoroutines
    /\ participants = NoParticipants
    /\ done = {}
    /\ loops = Subscriptions(agents)
    /\ consumers = [c \in BusConsumers |-> NewConsumer(c)]
    /\ web = NoWeb
    /\ slices = NoSlices
    /\ manager = NoManager

\* a producer writes a payload on the topic: a user's message or bytes that
\* do not decode
ProducePayload ==
    /\ Len(chatMessages) < MaxBusLog
    /\ \E value \in {ChatMessage(MessageTypeUser, TextOk, "u1", MainConversation), Garbage} :
          chatMessages' = PublishMessage(chatMessages, value)
    /\ last' = NoCall
    /\ UNCHANGED <<slices, manager, consumers, web, done, loops, mu, calls, participants, build,
                   agentConfigs, conversations, agents, chatResponses, offset>>

\* the top of the loop
Select(c) ==
    /\ consumers[c].pc = "select"
    /\ consumers' = [consumers EXCEPT ![c].pc = SelectCase(consumers[c].ctx \in done),
                                      ![c].err = ""]
    /\ last' = NoCall
    /\ UNCHANGED <<slices, manager, web, done, loops, mu, calls, participants, build, agentConfigs,
                   conversations, agents, chatMessages, chatResponses, offset>>

\* reader.ReadMessage(ctx) returns the record at the offset of the group
ReadMessage(c) ==
    /\ consumers[c].pc = "read"
    /\ Pending(consumers[c].group)
    /\ consumers' = [consumers EXCEPT ![c].pc = "decode",
                                      ![c].msg = NextMessage(consumers[c].group),
                                      ![c].read = Append(@, NextMessage(consumers[c].group))]
    /\ offset' = Consumed(consumers[c].group)
    /\ last' = NoCall
    /\ UNCHANGED <<slices, manager, web, done, loops, mu, calls, participants, build, agentConfigs,
                   conversations, agents, chatMessages, chatResponses>>

\* reader.ReadMessage(ctx) returns an error (the broker, the connection, or
\* the cancelled context): log, time.Sleep(time.Second), continue
ReadMessageError(c) ==
    /\ consumers[c].pc = "read"
    /\ consumers' = [consumers EXCEPT ![c].pc = "select", ![c].err = "read failed",
                                      ![c].retried = TRUE]
    /\ last' = NoCall
    /\ UNCHANGED <<slices, manager, web, done, loops, mu, calls, participants, build, agentConfigs,
                   conversations, agents, chatMessages, chatResponses, offset>>

\* chatMsg.FromJSON(msg.Value): on an error log and continue
Decode(c) ==
    /\ consumers[c].pc = "decode"
    /\ LET decoded == FromJSON(consumers[c].msg)
       IN  /\ consumers' = [consumers EXCEPT
                               ![c].pc = IF decoded.err # "" THEN "select" ELSE "handle",
                               ![c].msg = decoded.message,
                               ![c].err = decoded.err]
           /\ last' = NoCall
    /\ UNCHANGED <<slices, manager, web, done, loops, mu, calls, participants, build, agentConfigs,
                   conversations, agents, chatMessages, chatResponses, offset>>

\* handler(&chatMsg) of the flow manager: FlowManager.handleMessage
FlowHandler(c) ==
    /\ c = FlowConsumer
    /\ consumers[c].pc = "handle"
    /\ conversations' = AddMessage(conversations, MainConversation, consumers[c].msg)
    /\ consumers' = [consumers EXCEPT
                        ![c].pc = AfterHandler(""),
                        ![c].handled = Append(@, consumers[c].msg)]
    /\ last' = NoCall
    /\ UNCHANGED <<slices, manager, web, done, loops, mu, calls, participants, build, agentConfigs,
                   agents, chatMessages, chatResponses, offset>>

\* handler(&chatMsg) of the web server: broadcastMessage, no client connected
WebHandler(c) ==
    /\ c = WebConsumer
    /\ consumers[c].pc = "handle"
    /\ consumers' = [consumers EXCEPT
                        ![c].pc = AfterHandler(""),
                        ![c].handled = Append(@, consumers[c].msg)]
    /\ last' = NoCall
    /\ UNCHANGED <<slices, manager, web, done, loops, mu, calls, participants, build, agentConfigs,
                   conversations, agents, chatMessages, chatResponses, offset>>

\* handler(&chatMsg) of an agent: ProcessMessage, EchoAgent.HandleMessage;
\* the error it returns is the error of the write of its reply
AgentHandler(c) ==
    /\ c \in DOMAIN agents
    /\ consumers[c].pc = "handle"
    /\ \E written \in BOOLEAN :
        LET n == agents[c]
            message == consumers[c].msg
            err == IF written THEN "" ELSE "write failed"
        IN  /\ written => Len(chatMessages) < MaxBusLog
            /\ chatMessages' =
                  IF written
                  THEN PublishMessage(chatMessages,
                          SendMessage(n, echoResponse(message.Content),
                                      message.ConversationID))
                  ELSE chatMessages
            /\ consumers' = [consumers EXCEPT
                                ![c].pc = AfterHandler(err),
                                ![c].err = err,
                                ![c].handled = Append(@, message)]
            /\ last' = NoCall
    /\ UNCHANGED <<slices, manager, web, done, loops, mu, calls, participants, build, agentConfigs,
                   conversations, agents, chatResponses, offset>>

ConsumerStep(c) ==
    \/ Select(c)
    \/ ReadMessage(c)
    \/ ReadMessageError(c)
    \/ Decode(c)
    \/ FlowHandler(c)
    \/ WebHandler(c)
    \/ AgentHandler(c)

NextBus ==
    \/ ProducePayload
    \/ CancelContext
    \/ \E c \in BusConsumers : ConsumerStep(c)

SpecBus == InitBus /\ [][NextBus]_vars

\* the scheduler runs every goroutine that can take a step
FairBus == \A c \in BusConsumers : WF_consumers(ConsumerStep(c))

SpecBusFair == InitBus /\ [][NextBus]_vars /\ FairBus

---------------------------------------------------------------------------
(* SpecConfig: agents created from the entries of the configuration, and   *)
(* SetResponseChance called on them.  Chances are in tenths.               *)

\* response_chance values of an entry: below 0, 0.0, 0.3, 1.0, above 1
ConfigChances == {0 - 1, 0, 3, 10, 15}

\* the entries of agents.agents in config.yaml; hasResponseChance says
\* whether the key response_chance is written in the entry
YamlEntries ==
    [id : {"", "a1"}, name : {"", "Ann"}, type : {"llm", "echo", "other"},
     enabled : BOOLEAN, hasResponseChance : BOOLEAN, response_chance : ConfigChances]

\* viper.Unmarshal of an entry: a key that is not written leaves the zero
\* value of the field
Unmarshal(entry) ==
    [ID |-> entry.id, Name |-> entry.name, Type |-> entry.type,
     ResponseChance |-> IF entry.hasResponseChance THEN entry.response_chance ELSE 0,
     IsEnabled |-> entry.enabled]

\* the result of a creation that returns nil
NilAgent ==
    [id |-> "", name |-> "", kind |-> "nil", personality |-> "", interests |-> <<>>,
     responseChance |-> 0, running |-> FALSE]

\* NewEchoAgent(id, name, kafkaClient, responseChance, convManager), as
\* Factory.createEchoAgent calls it
NewConfiguredEchoAgent(id, name, responseChance) ==
    [id |-> id, name |-> name, kind |-> "echo", personality |-> "",
     interests |-> <<>>, responseChance |-> responseChance, running |-> FALSE]

\* Factory.createAgent, after the IsEnabled test of Factory.CreateAgents
createAgent(agentConfig) ==
    LET name == IF agentConfig.Name = "" THEN agentConfig.ID ELSE agentConfig.Name
        chance == IF agentConfig.ResponseChance = 0 THEN DefaultResponseChance
                  ELSE agentConfig.ResponseChance
    IN  IF ~agentConfig.IsEnabled THEN NilAgent
        ELSE IF agentConfig.ID = "" THEN NilAgent
        ELSE IF agentConfig.Type = "llm"
             THEN NewLLMAgentWithHistory(agentConfig.ID, name, "ollama", chance)
        ELSE IF agentConfig.Type = "echo"
             THEN NewConfiguredEchoAgent(agentConfig.ID, name, chance)
        ELSE NilAgent

\* Factory.createNaturalAgent, after the IsEnabled test of CreateNaturalAgents
createEnabledNaturalAgent(agentConfig) ==
    IF ~agentConfig.IsEnabled \/ agentConfig.ID = "" THEN NilAgent
    ELSE createNaturalAgent(agentConfig)

\* SetResponseChance of the agent with a personality: a chance outside
\* [0, 1] is ignored
SetResponseChanceChecked(n, chance) ==
    IF chance >= 0 /\ chance <= 10 THEN [n EXCEPT !.responseChance = chance] ELSE n

InitConfig ==
    /\ build = "unified"
    /\ agentConfigs = NoConfigs
    /\ agents = [a \in {"curious-agent"} |->
                   NewPersonalityAgent("curious-agent", "Curious Agent", "curious",
                                       curiousInterests)]
    /\ conversations = EmptyRegistry
    /\ chatMessages = <<>>
    /\ chatResponses = <<>>
    /\ offset = [c \in {} |-> 0]
    /\ last = NoCall
    /\ mu = ""
    /\ calls = NoGoroutines
    /\ participants = NoParticipants
    /\ done = {}
    /\ loops = Subscriptions(agents)
    /\ consumers = NoConsumers
    /\ web = NoWeb
    /\ slices = NoSlices
    /\ manager = NoManager

\* the agent a creation returned is kept under its id
Created(agent) ==
    IF agent.kind = "nil" THEN agents
    ELSE [a \in DOMAIN agents \cup {agent.id} |->
            IF a = agent.id THEN agent ELSE agents[a]]

\* Factory.CreateAgents on one entry of the configuration
CreateAgents ==
    \E entry \in YamlEntries :
        LET agent == createAgent(Unmarshal(entry))
        IN  /\ agents' = Created(agent)
            /\ loops' = Subscriptions(agents')
            /\ last' = [op |-> "createAgent", entry |-> entry, agent |-> agent]
            /\ UNCHANGED <<slices, manager, consumers, web, done, mu, calls, participants, build,
                           agentConfigs, conversations, chatMessages, chatResponses,
                           offset>>

\* Factory.CreateNaturalAgents on one entry of the configuration
CreateNaturalAgents ==
    \E entry \in {e \in YamlEntries : e.type = "other"} :
        LET agent == createEnabledNaturalAgent(Unmarshal(entry))
        IN  /\ agents' = Created(agent)
            /\ loops' = Subscriptions(agents')
            /\ last' = [op |-> "createNaturalAgent", entry |-> entry, agent |-> agent]
            /\ UNCHANGED <<slices, manager, consumers, web, done, mu, calls, participants, build,
                           agentConfigs, conversations, chatMessages, chatResponses,
                           offset>>

\* NaturalAgent.SetResponseChance on a constructed agent
SetResponseChanceCall ==
    \E a \in DOMAIN agents, chance \in ConfigChances :
        /\ agents[a].kind \in {"natural", "personality"}
        /\ agents' = [agents EXCEPT ![a] =
                        IF @.kind = "natural" THEN SetResponseChance(@, chance)
                        ELSE SetResponseChanceChecked(@, chance)]
        /\ last' = [op |-> "SetResponseChance", agent |-> a, chance |-> chance,
                    before |-> agents[a].responseChance]
        /\ UNCHANGED <<slices, manager, consumers, web, done, loops, mu, calls, participants, build,
                       agentConfigs, conversations, chatMessages, chatResponses, offset>>

NextConfig ==
    \/ CreateAgents
    \/ CreateNaturalAgents
    \/ SetResponseChanceCall

SpecConfig == InitConfig /\ [][NextConfig]_vars

---------------------------------------------------------------------------
(* SpecSlice: conv.Messages as the Go slice it is.  A slice is a window    *)
(* on a backing array; append writes into the array when its capacity      *)
(* allows and moves to a new array otherwise, and GetRecentMessages returns *)
(* a window on the array conv.Messages has at that time.                   *)

MaxSlice == 5

SliceGoroutines == {"a1", "a2"}
SliceLimits == {2, RecentLimit}

\* a goroutine that holds no slice returned by GetRecentMessages
NoSlice == [taken |-> FALSE, array |-> 0, low |-> 0, high |-> 0, copy |-> <<>>]

\* cap(conv.Messages)
Cap(sl) == IF sl.messages.array = 0 THEN 0 ELSE Len(sl.arrays[sl.messages.array])

\* the elements a window shows now
Elements(sl, window) ==
    [i \in 1..(window.high - window.low) |-> sl.arrays[window.array][window.low + i]]

\* faulty variant of appendSlice: a full array is shifted in place
appendSlice_shift(sl, message) ==
    LET h == sl.messages
    IN  IF h.len < Cap(sl)
        THEN [sl EXCEPT !.arrays[h.array][h.len + 1] = message,
                        !.messages.len = h.len + 1]
        ELSE IF h.array = 0
        THEN [sl EXCEPT !.arrays = Append(@, <<message>>),
                        !.messages = [array |-> Len(sl.arrays) + 1, len |-> 1]]
        ELSE [sl EXCEPT !.arrays[h.array] = Append(Tail(@), message)]

\* conv.Messages = append(conv.Messages, message)
appendSlice(sl, message) ==
    LET h == sl.messages
        newcap == IF Cap(sl) = 0 THEN 1 ELSE 2 * Cap(sl)
        grown == [i \in 1..newcap |->
                    IF i <= h.len THEN sl.arrays[h.array][i]
                    ELSE IF i = h.len + 1 THEN message
                    ELSE NoMessage]
    IN  IF h.len < Cap(sl)
        THEN [sl EXCEPT !.arrays[h.array][h.len + 1] = message,
                        !.messages.len = h.len + 1]
        ELSE [sl EXCEPT !.arrays = Append(@, grown),
                        !.messages = [array |-> Len(sl.arrays) + 1, len |-> h.len + 1]]

\* the slice GetRecentMessages returns: conv.Messages itself, or
\* conv.Messages[len(conv.Messages)-limit:]
recentSlice(sl, limit) ==
    LET h == sl.messages
    IN  [array |-> h.array,
         low |-> IF h.len <= limit THEN 0 ELSE h.len - limit,
         high |-> h.len]

InitSlice ==
    /\ build = "unified"
    /\ agentConfigs = NoConfigs
    /\ agents = [a \in {} |-> "nil"]
    /\ conversations = EmptyRegistry
    /\ chatMessages = <<>>
    /\ chatResponses = <<>>
    /\ offset = [c \in {} |-> 0]
    /\ last = NoCall
    /\ mu = ""
    /\ calls = NoGoroutines
    /\ participants = NoParticipants
    /\ done = {}
    /\ loops = Subscriptions(agents)
    /\ consumers = NoConsumers
    /\ web = NoWeb
    /\ slices = [NoSlices EXCEPT !.returned = [t \in SliceGoroutines |-> NoSlice]]
    /\ manager = NoManager

\* Manager.AddMessage by the flow manager, inside conv.mu
SliceAddMessage ==
    /\ slices.messages.len < MaxSlice
    /\ \E sender \in SliceGoroutines :
          slices' = appendSlice(slices,
                       ChatMessage(MessageTypeAgent, TextOk, sender, MainConversation))
    /\ UNCHANGED <<manager, consumers, web, done, loops, mu, calls, participants, build,
                   agentConfigs, conversations, agents, chatMessages, chatResponses,
                   offset, last>>

\* Manager.GetRecentMessages called by shouldRespond of agent t: the agent
\* holds the returned slice; copy is what the slice showed on return
SliceGetRecentMessages(t) ==
    /\ ~slices.returned[t].taken
    /\ \E limit \in SliceLimits :
        LET window == recentSlice(slices, limit)
        IN  slices' = [slices EXCEPT !.returned[t] =
                          [taken |-> TRUE, array |-> window.array, low |-> window.low,
                           high |-> window.high,
                           copy |-> IF window.array = 0 THEN <<>>
                                    ELSE Elements(slices, window)]]
    /\ UNCHANGED <<manager, consumers, web, done, loops, mu, calls, participants, build,
                   agentConfigs, conversations, agents, chatMessages, chatResponses,
                   offset, last>>

\* shouldRespond returns: the agent lets go of the slice
SliceRelease(t) ==
    /\ slices.returned[t].taken
    /\ slices' = [slices EXCEPT !.returned[t] = NoSlice]
    /\ UNCHANGED <<manager, consumers, web, done, loops, mu, calls, participants, build,
                   agentConfigs, conversations, agents, chatMessages, chatResponses,
                   offset, last>>

NextSlice ==
    \/ SliceAddMessage
    \/ \E t \in SliceGoroutines :
          \/ SliceGetRecentMessages(t)
          \/ SliceRelease(t)

SpecSlice == InitSlice /\ [][NextSlice]_vars

---------------------------------------------------------------------------
(* SpecRegister: Manager.RegisterAgent called from several goroutines,     *)
(* statement by statement.                                                  *)

MaxRegistrations == 4

RegisterGoroutines == {"r1", "r2"}

\* the agents handed to RegisterAgent: two with the same id, one with another
RegisterCandidates ==
    {[id |-> "a1", name |-> "first"], [id |-> "a1", name |-> "second"],
     [id |-> "a2", name |-> "other"]}

NoCandidate == [id |-> "", name |-> ""]
NoRegistration == [pc |-> "idle", agent |-> NoCandidate, err |-> ""]

\* faulty variant of CanLockManager: the lock is not taken
CanLockManager_noLock(holder) == TRUE

\* m.mu.Lock() of the agent manager: nobody inside
CanLockManager(holder) == holder = ""

InitRegister ==
    /\ build = "unified"
    /\ agentConfigs = NoConfigs
    /\ agents = [a \in {} |-> "nil"]
    /\ conversations = EmptyRegistry
    /\ chatMessages = <<>>
    /\ chatResponses = <<>>
    /\ offset = [c \in {} |-> 0]
    /\ last = NoCall
    /\ mu = ""
    /\ calls = NoGoroutines
    /\ participants = NoParticipants
    /\ done = {}
    /\ loops = Subscriptions(agents)
    /\ consumers = NoConsumers
    /\ web = NoWeb
    /\ slices = NoSlices
    /\ manager = [NoManager EXCEPT
                     !.frames = [g \in RegisterGoroutines |-> NoRegistration]]

\* the calls of RegisterAgent begun so far
Registrations ==
    Len(manager.registered) + Len(manager.refused)
      + Cardinality({g \in DOMAIN manager.frames : manager.frames[g].pc # "idle"})

\* a goroutine calls RegisterAgent(agent)
CallRegisterAgent(g) ==
    /\ manager.frames[g].pc = "idle"
    /\ Registrations < MaxRegistrations
    /\ \E agent \in RegisterCandidates :
          manager' = [manager EXCEPT
                         !.frames[g] = [pc |-> "lock", agent |-> agent, err |-> ""]]
    /\ UNCHANGED <<slices, consumers, web, done, loops, mu, calls, participants, build,
                   agentConfigs, conversations, agents, chatMessages, chatResponses,
                   offset, last>>

\* m.mu.Lock()
RegisterLock(g) ==
    /\ manager.frames[g].pc = "lock"
    /\ CanLockManager(manager.mu)
    /\ manager' = [manager EXCEPT !.mu = g, !.frames[g].pc = "check"]
    /\ UNCHANGED <<slices, consumers, web, done, loops, mu, calls, participants, build,
                   agentConfigs, conversations, agents, chatMessages, chatResponses,
                   offset, last>>

\* if _, exists := m.agents[agent.ID()]; exists { return error }
RegisterCheck(g) ==
    /\ manager.frames[g].pc = "check"
    /\ manager' =
          IF manager.frames[g].agent.id \in DOMAIN manager.agents
          THEN [manager EXCEPT !.frames[g].pc = "unlock",
                               !.frames[g].err = "already registered"]
          ELSE [manager EXCEPT !.frames[g].pc = "insert"]
    /\ UNCHANGED <<slices, consumers, web, done, loops, mu, calls, participants, build,
                   agentConfigs, conversations, agents, chatMessages, chatResponses,
                   offset, last>>

\* m.agents[agent.ID()] = agent
RegisterInsert(g) ==
    /\ manager.frames[g].pc = "insert"
    /\ LET agent == manager.frames[g].agent
       IN  manager' = [manager EXCEPT
                          !.agents = [a \in DOMAIN manager.agents \cup {agent.id} |->
                                        IF a = agent.id THEN agent ELSE manager.agents[a]],
                          !.frames[g].pc = "unlock"]
    /\ UNCHANGED <<slices, consumers, web, done, loops, mu, calls, participants, build,
                   agentConfigs, conversations, agents, chatMessages, chatResponses,
                   offset, last>>

\* the deferred m.mu.Unlock(), and the return: the call is recorded with
\* the error it returned
RegisterUnlock(g) ==
    /\ manager.frames[g].pc = "unlock"
    /\ LET frame == manager.frames[g]
       IN  /\ manager' = [manager EXCEPT
                             !.mu = IF @ = g THEN "" ELSE @,
                             !.frames[g] = NoRegistration,
                             !.registered = IF frame.err = "" THEN Append(@, frame.agent)
                                            ELSE @,
                             !.refused = IF frame.err # "" THEN Append(@, frame.agent)
                                         ELSE @]
           /\ last' = [op |-> "RegisterAgent", agent |-> frame.agent, err |-> frame.err]
    /\ UNCHANGED <<slices, consumers, web, done, loops, mu, calls, participants, build,
                   agentConfigs, conversations, agents, chatMessages, chatResponses,
                   offset>>

NextRegister ==
    \E g \in RegisterGoroutines :
        \/ CallRegisterAgent(g)
        \/ RegisterLock(g)
        \/ RegisterCheck(g)
        \/ RegisterInsert(g)
        \/ RegisterUnlock(g)

SpecRegister == InitRegister /\ [][NextRegister]_vars

---------------------------------------------------------------------------
(* SpecWeb: the web server's registry of clients.  handleWebSocket runs in *)
(* one goroutine per connection; broadcastMessage runs in the goroutine of  *)
(* the chat-messages consumer and in the one of the chat-responses          *)
(* consumer.  A write to the map s.clients takes two steps, so that two     *)
(* writes at the same time can be seen.                                     *)

Broadcasters == {"chat-messages", "chat-responses"}
Connections == {"c1", "c2"}

NoFrame == [pc |-> "idle", conn |-> "", todo |-> {}]

InitWeb ==
    /\ build = "typed"
    /\ agentConfigs = NoConfigs
    /\ agents = [a \in {} |-> "nil"]
    /\ conversations = EmptyRegistry
    /\ chatMessages = <<>>
    /\ chatResponses = <<>>
    /\ offset = [c \in {} |-> 0]
    /\ last = NoCall
    /\ mu = ""
    /\ calls = NoGoroutines
    /\ participants = NoParticipants
    /\ done = {}
    /\ loops = Subscriptions(agents)
    /\ consumers = NoConsumers
    /\ web = [NoWeb EXCEPT !.frames = [g \in Broadcasters \cup Connections |-> NoFrame]]
    /\ slices = NoSlices
    /\ manager = NoManager

WebAt(g, pc) == web.frames[g].pc = pc

\* handleWebSocket: the connection is upgraded; s.clientsMu.Lock()
ConnectLock(c) ==
    /\ c \in Connections
    /\ WebAt(c, "idle")
    /\ CanLock(web.clientsMu)
    /\ web' = [web EXCEPT !.clientsMu.writer = c,
                          !.frames[c] = [pc |-> "insert", conn |-> c, todo |-> {}]]
    /\ UNCHANGED <<slices, manager, consumers, done, loops, mu, calls, participants,
                   build, agentConfigs, conversations, agents, chatMessages,
                   chatResponses, offset, last>>

\* a write to the map begins
MapWriteBegin(g) ==
    /\ web.frames[g].pc \in {"insert", "delete"}
    /\ g \notin web.writing
    /\ web' = [web EXCEPT !.writing = @ \cup {g}]
    /\ UNCHANGED <<slices, manager, consumers, done, loops, mu, calls, participants,
                   build, agentConfigs, conversations, agents, chatMessages,
                   chatResponses, offset, last>>

\* s.clients[conn] = &ClientInfo{...}
ConnectInsert(c) ==
    /\ c \in Connections
    /\ WebAt(c, "insert")
    /\ c \in web.writing
    /\ web' = [web EXCEPT !.clients = @ \cup {c}, !.writing = @ \ {c},
                          !.frames[c].pc = "unlock_connected"]
    /\ UNCHANGED <<slices, manager, consumers, done, loops, mu, calls, participants,
                   build, agentConfigs, conversations, agents, chatMessages,
                   chatResponses, offset, last>>

\* s.clientsMu.Unlock() after the insert, and the loop of conn.ReadJSON
ConnectUnlock(c) ==
    /\ c \in Connections
    /\ WebAt(c, "unlock_connected")
    /\ web' = [web EXCEPT !.clientsMu = Unlock(@, c), !.frames[c].pc = "reading"]
    /\ UNCHANGED <<slices, manager, consumers, done, loops, mu, calls, participants,
                   build, agentConfigs, conversations, agents, chatMessages,
                   chatResponses, offset, last>>

\* conn.ReadJSON returns an error: break; s.clientsMu.Lock()
DisconnectLock(c) ==
    /\ c \in Connections
    /\ WebAt(c, "reading")
    /\ CanLock(web.clientsMu)
    /\ web' = [web EXCEPT !.clientsMu.writer = c, !.frames[c].pc = "delete"]
    /\ UNCHANGED <<slices, manager, consumers, done, loops, mu, calls, participants,
                   build, agentConfigs, conversations, agents, chatMessages,
                   chatResponses, offset, last>>

\* delete(s.clients, conn) of handleWebSocket
DisconnectDelete(c) ==
    /\ c \in Connections
    /\ WebAt(c, "delete")
    /\ c \in web.writing
    /\ web' = [web EXCEPT !.clients = @ \ {c}, !.writing = @ \ {c},
                          !.frames[c].pc = "unlock_closed"]
    /\ UNCHANGED <<slices, manager, consumers, done, loops, mu, calls, participants,
                   build, agentConfigs, conversations, agents, chatMessages,
                   chatResponses, offset, last>>

\* s.clientsMu.Unlock() after the delete; the handler returns
DisconnectUnlock(c) ==
    /\ c \in Connections
    /\ WebAt(c, "unlock_closed")
    /\ web' = [web EXCEPT !.clientsMu = Unlock(@, c), !.frames[c].pc = "closed"]
    /\ UNCHANGED <<slices, manager, consumers, done, loops, mu, calls, participants,
                   build, agentConfigs, conversations, agents, chatMessages,
                   chatResponses, offset, last>>

\* broadcastMessage: s.clientsMu.RLock(); the range over s.clients begins
BroadcastRLock(b) ==
    /\ b \in Broadcasters
    /\ WebAt(b, "idle")
    /\ CanRLock(web.clientsMu)
    /\ web' = [web EXCEPT !.clientsMu.readers = @ \cup {b},
                          !.frames[b] = [pc |-> "range", conn |-> "",
                                         todo |-> web.clients]]
    /\ UNCHANGED <<slices, manager, consumers, done, loops, mu, calls, participants,
                   build, agentConfigs, conversations, agents, chatMessages,
                   chatResponses, offset, last>>

\* conn.WriteMessage to the next client of the range: it succeeds, or it
\* fails and the client is closed and is to be deleted from the map
BroadcastWrite(b) ==
    /\ b \in Broadcasters
    /\ WebAt(b, "range")
    /\ \E conn \in web.frames[b].todo \cap web.clients, ok \in BOOLEAN :
          web' = [web EXCEPT !.frames[b] =
                     [pc |-> IF ok THEN "range" ELSE "delete", conn |-> conn,
                      todo |-> web.frames[b].todo \ {conn}]]
    /\ UNCHANGED <<slices, manager, consumers, done, loops, mu, calls, participants,
                   build, agentConfigs, conversations, agents, chatMessages,
                   chatResponses, offset, last>>

\* delete(s.clients, conn) of broadcastMessage
BroadcastDelete(b) ==
    /\ b \in Broadcasters
    /\ WebAt(b, "delete")
    /\ b \in web.writing
    /\ web' = [web EXCEPT !.clients = @ \ {web.frames[b].conn}, !.writing = @ \ {b},
                          !.frames[b].pc = "range"]
    /\ UNCHANGED <<slices, manager, consumers, done, loops, mu, calls, participants,
                   build, agentConfigs, conversations, agents, chatMessages,
                   chatResponses, offset, last>>

\* the range is over; the deferred s.clientsMu.RUnlock()
BroadcastRUnlock(b) ==
    /\ b \in Broadcasters
    /\ WebAt(b, "range")
    /\ web.frames[b].todo \cap web.clients = {}
    /\ web' = [web EXCEPT !.clientsMu.readers = @ \ {b}, !.frames[b] = NoFrame]
    /\ UNCHANGED <<slices, manager, consumers, done, loops, mu, calls, participants,
                   build, agentConfigs, conversations, agents, chatMessages,
                   chatResponses, offset, last>>

NextWeb ==
    \E g \in Broadcasters \cup Connections :
        \/ ConnectLock(g)
        \/ MapWriteBegin(g)
        \/ ConnectInsert(g)
        \/ ConnectUnlock(g)
        \/ DisconnectLock(g)
        \/ DisconnectDelete(g)
        \/ DisconnectUnlock(g)
        \/ BroadcastRLock(g)
        \/ BroadcastWrite(g)
        \/ BroadcastDelete(g)
        \/ BroadcastRUnlock(g)

SpecWeb == InitWeb /\ [][NextWeb]_vars

---------------------------------------------------------------------------
(* Properties of the decision *)

\* what the claims call the decision: a recorded call of shouldRespond
Decided == last.op = "shouldRespond"

\* how many of the last five stored messages of a conversation an agent wrote,
\* counted on the store itself
AuthoredInLastFive(agentID, conversationID) ==
    IF conversationID \notin DOMAIN conversations THEN 0
    ELSE LET msgs == conversations[conversationID].Messages
         IN  Cardinality({i \in 1..Len(msgs) :
                            i > Len(msgs) - 5 /\ msgs[i].AgentID = agentID})

\* the heuristics by personality, as the manager states them
PersonalityHeuristic(personality, text) ==
    LET content == ToLower(text)
    IN  \/ personality = "curious" /\ \E k \in {KwQuestion, KwWhat, KwHow} : Contains(content, k)
        \/ personality = "helpful" /\ \E k \in {KwHelp, KwProblem, KwIssue} : Contains(content, k)
        \/ personality = "social" /\ \E k \in {KwHello, KwHi, KwGreeting} : Contains(content, k)

CapabilityKeyword(capabilities, text) ==
    \E i \in 1..Len(capabilities) : Contains(ToLower(text), ToLower(capabilities[i]))

\* C1: whenever the sender of the message is the deciding agent itself, the
\* decision is not to respond, whatever the kind, replyTo, draws and history.
C1_SelfSuppression ==
    (Decided /\ last.message.AgentID = last.agent) => last.respond = FALSE

\* a message of the agent itself, addressed to it, with a passing draw and an
\* empty history, was decided
C1_Witness ==
    /\ Decided
    /\ last.message.AgentID = last.agent
    /\ last.message.ReplyTo = last.agent
    /\ last.draw < agents[last.agent].responseChance
    /\ AuthoredInLastFive(last.agent, last.message.ConversationID) = 0
    /\ last.respond = FALSE

\* C4: when the agent wrote at least 2 of the last 5 stored messages of the
\* message's conversation, the decision is not to respond.
C4_AntiSpamStage ==
    (Decided /\ AuthoredInLastFive(last.agent, last.message.ConversationID) >= 2)
        => last.respond = FALSE

\* the cap alone refuses: another sender, a relevant message, a passing draw,
\* a history longer than the window with exactly 2 of the last 5 by the agent
C4_Witness ==
    /\ Decided
    /\ last.message.AgentID # last.agent
    /\ last.relevant
    /\ last.draw < agents[last.agent].responseChance
    /\ Len(conversations[last.message.ConversationID].Messages) > 5
    /\ AuthoredInLastFive(last.agent, last.message.ConversationID) = 2
    /\ last.respond = FALSE

\* C5: the decision goes past the probability gate only with a draw strictly
\* below the agent's probability; a draw equal to it is rejected.
C5_StrictProbabilityGate ==
    (Decided /\ last.respond) => last.draw < agents[last.agent].responseChance

\* C6: an agent configured with response_chance 0.0 never responds to a message
\* of another sender that is addressed to it.
C6_ZeroChanceNeverResponds ==
    (/\ Decided
     /\ last.agent \in DOMAIN agentConfigs
     /\ agentConfigs[last.agent].ResponseChance = 0
     /\ last.message.AgentID # last.agent
     /\ last.message.ReplyTo = last.agent) => last.respond = FALSE

\* C7: the decision is to respond exactly when the sender is another one, the
\* message is relevant, the draw is below the probability and the agent wrote
\* fewer than 2 of the last 5 stored messages.
C7_RespondIffAllStagesPass ==
    Decided =>
        (last.respond <=>
            /\ last.message.AgentID # last.agent
            /\ last.relevant
            /\ last.draw < agents[last.agent].responseChance
            /\ AuthoredInLastFive(last.agent, last.message.ConversationID) < 2)

\* C8: a System message of another sender is relevant to the agent, whatever
\* replyTo, capabilities, personality and the overhear draw.
C8_SystemAlwaysRelevant ==
    (/\ last.op = "IsRelevantToAgent"
     /\ last.message.Type = MessageTypeSystem
     /\ last.message.AgentID # last.agent) => last.relevant

\* a System message that nothing else makes relevant: not addressed, empty
\* text, no capabilities, a failing overhear draw
C8_Witness ==
    /\ last.op = "IsRelevantToAgent"
    /\ last.message.Type = MessageTypeSystem
    /\ last.message.AgentID # last.agent
    /\ last.message.ReplyTo = ""
    /\ last.message.Relevance = ""
    /\ last.message.Content = TextEmpty
    /\ agents[last.agent].interests = <<>>
    /\ last.overhear >= OverhearChance
    /\ last.relevant

\* C10: a direct address, a capability keyword in the text (case-insensitive)
\* or a matching personality heuristic makes the message relevant for every
\* overhear draw; the overhear draw never makes a message irrelevant.
C10_DeterministicRelevanceWins ==
    last.op = "IsRelevantToAgent" =>
        /\ (\/ last.message.ReplyTo = last.agent
            \/ CapabilityKeyword(agents[last.agent].interests, last.message.Content)
            \/ PersonalityHeuristic(agents[last.agent].personality, last.message.Content))
              => last.relevant
        /\ last.overhear < OverhearChance => last.relevant

\* the capability "OK" found in the text "ok" of a user message that is not
\* addressed to the agent, with the overhear draw failing
C10_Witness ==
    /\ last.op = "IsRelevantToAgent"
    /\ last.message.Type = MessageTypeUser
    /\ last.message.ReplyTo = ""
    /\ last.message.Relevance = ""
    /\ last.message.Content = TextOk
    /\ agents[last.agent].interests = InterestOK
    /\ agents[last.agent].personality = "technical"
    /\ last.overhear >= OverhearChance
    /\ last.relevant

---------------------------------------------------------------------------
(* Properties of the running system *)

\* the number of entries of history[from..from + 4] the agent authored
AuthoredInWindow(history, from, agentID) ==
    Cardinality({i \in from..(from + RecentLimit - 1) : history[i].AgentID = agentID})

\* C2: in every reachable state, for every conversation and every agent,
\* any 5 consecutive entries of the conversation's history hold at most 2
\* messages the agent authored
C2_AntiSpamWindow ==
    \A c \in DOMAIN conversations : \A a \in DOMAIN agents :
        LET history == conversations[c].Messages
        IN  \A from \in 1..(Len(history) - RecentLimit + 1) :
                AuthoredInWindow(history, from, a) <= SpamLimit

\* C3: no agent publishes a reply whose trigger is a message the same agent
\* authored
C3_NoReplyToOwnMessage ==
    last.published => last.message.AgentID # last.agent

\* C9: a reply to a system message is published only after the decision
\* was taken, with a draw that passed and with fewer than 2 of the last 5
\* history messages authored by the agent
C9_SystemMessageGated ==
    (last.published /\ last.message.Type = MessageTypeSystem) =>
        /\ last.decided
        /\ ~(last.draw > agents[last.agent].responseChance)
        /\ ourRecentResponses(agents[last.agent], last.recent) < SpamLimit

---------------------------------------------------------------------------
(* Properties of the Store *)

Min(a, b) == IF a < b THEN a ELSE b

\* the goroutine has just read the recent messages and still holds the lock
JustRead(t) == At(t, "conv_runlock") /\ calls[t].op = "GetRecentMessages"

\* C11: GetRecentMessages(id, N) with N > 0 on a history m1..mk returns the
\* last min(N, k) messages, oldest first, in the order of the history
C11_RecentIsLastInOrder ==
    \A t \in DOMAIN calls :
        (JustRead(t) /\ calls[t].limit > 0) =>
            LET msgs == Conv(t).Messages
                k == Len(msgs)
                n == Min(calls[t].limit, k)
            IN  /\ ~calls[t].panicked
                /\ Len(calls[t].result) = n
                /\ \A i \in 1..n : calls[t].result[i] = msgs[k - n + i]

\* three messages stored, the first and the last by different authors, and
\* the two most recent returned
C11_Witness ==
    \E t \in DOMAIN calls :
        /\ JustRead(t)
        /\ calls[t].limit = 2
        /\ Len(Conv(t).Messages) = 3
        /\ Conv(t).Messages[1].AgentID # Conv(t).Messages[2].AgentID
        /\ Len(calls[t].result) = 2
        /\ calls[t].result[2] = Conv(t).Messages[3]

\* C12: GetRecentMessages with a limit of 0 or below returns the empty
\* sequence and does not fail, whatever the length of the history
C12_NonPositiveLimitIsEmpty ==
    \A t \in DOMAIN calls :
        (JustRead(t) /\ calls[t].limit <= 0) =>
            ~calls[t].panicked /\ calls[t].result = <<>>

\* C13: for every id one Conversation is created and never replaced, and
\* every caller that obtained a conversation holds that one
C13_OneConversationPerId ==
    /\ \A c \in DOMAIN conversations : conversations[c].Gen = 1
    /\ \A t \in DOMAIN calls :
          calls[t].conv # 0 =>
              /\ calls[t].conversationID \in DOMAIN conversations
              /\ calls[t].conv = Conv(t).Gen

\* two goroutines inside GetOrCreateConversation for the same unknown id:
\* one is about to create it, the other waits for the registry
C13_Witness ==
    /\ MainConversation \notin DOMAIN conversations
    /\ At("g1", "goc_create") /\ calls["g1"].conversationID = MainConversation
    /\ At("g2", "goc_lock") /\ calls["g2"].conversationID = MainConversation

IsPrefix(s, t) == Len(s) <= Len(t) /\ \A i \in 1..Len(s) : s[i] = t[i]

\* the appends the goroutines have completed
AppendsCompleted ==
    LET cnt[S \in SUBSET DOMAIN calls] ==
            IF S = {} THEN 0
            ELSE LET t == CHOOSE x \in S : TRUE IN calls[t].seq + cnt[S \ {t}]
    IN  cnt[DOMAIN calls]

\* C14: no step shortens or reorders a history, a step adds at most one
\* entry at its end, and the histories hold every completed append
C14_AppendOnly ==
    [][/\ \A c \in DOMAIN conversations :
            /\ c \in DOMAIN conversations'
            /\ IsPrefix(conversations[c].Messages, conversations'[c].Messages)
            /\ Len(conversations'[c].Messages) <= Len(conversations[c].Messages) + 1
       /\ (HistoryLen(MainConversation) + HistoryLen(SideConversation))' = AppendsCompleted'
      ]_vars

\* two appends to the same conversation at once: one has read the slice
\* and holds the lock, the other waits for it, one message is stored
C14_Witness ==
    /\ At("g1", "append_write") /\ calls["g1"].conversationID = MainConversation
    /\ At("g2", "conv_lock") /\ calls["g2"].op = "AddMessage"
    /\ HistoryLen(MainConversation) = 1

RegistryPositions == {"goc_lookup", "goc_create", "goc_unlock"}

\* C15: the registry lock is held only inside GetOrCreateConversation, never
\* while a conversation's lock is awaited or held; and a goroutine that needs
\* the lock of a conversation is not kept out by a goroutine inside another
\* conversation's lock
C15_ConversationsIndependent ==
    /\ \A t \in DOMAIN calls : mu = t => calls[t].pc \in RegistryPositions
    /\ \A t1 \in DOMAIN calls : \A t2 \in (DOMAIN calls) \ {t1} :
          (/\ calls[t1].conversationID \in DOMAIN conversations
           /\ Conv(t1).mu.writer = t1
           /\ calls[t2].conversationID # calls[t1].conversationID) =>
              /\ At(t2, "goc_lock") => CanLockRegistry(mu)
              /\ At(t2, "conv_lock") => CanLock(Conv(t2).mu)
              /\ At(t2, "conv_rlock") => CanRLock(Conv(t2).mu)

\* g2 is inside the lock of the main conversation while g1 is about to take
\* the lock of the side conversation
C15_Witness ==
    /\ At("g2", "append_write") /\ calls["g2"].conversationID = MainConversation
    /\ At("g1", "conv_lock") /\ calls["g1"].conversationID = SideConversation

\* C16: the fields of a conversation are read from outside the Store only
\* while no writer is inside the conversation's lock
C16_ReadsSerialized ==
    [][\A t \in DOMAIN calls :
          StatsRead(t) => Conv(t).mu.writer = ""]_vars

---------------------------------------------------------------------------
(* Properties of the flow manager *)

\* handleMessage is at work on the record at the offset of its group
Handling == FlowGoroutine \in DOMAIN calls /\ calls[FlowGoroutine].stmt > 0

TopicOf(convs) ==
    IF MainConversation \in DOMAIN convs THEN convs[MainConversation].Topic ELSE ""
MoodOf(convs) ==
    IF MainConversation \in DOMAIN convs THEN convs[MainConversation].Mood ELSE ""

\* C18: handleMessage stores the message first, then sets the topic, then the
\* mood: a topic or mood that any goroutine can read on a conversation was
\* detected in a message already in its history; while the flow manager is
\* inside SetConversationTopic or SetConversationMood for a record, that
\* record is the one stored at its place in the history; and while it is
\* inside SetConversationMood for a record with a topic keyword, the topic
\* is already one detected in that record.
C18_AppendThenTopicThenMood ==
    /\ \A c \in DOMAIN conversations :
          LET conv == conversations[c]
          IN  /\ conv.Topic # "" =>
                    \E i \in 1..Len(conv.Messages) :
                        conv.Topic \in detectTopic(conv.Messages[i].Content)
              /\ conv.Mood # "" =>
                    \E i \in 1..Len(conv.Messages) :
                        conv.Mood \in detectMood(conv.Messages[i].Content)
    /\ (Handling /\ calls[FlowGoroutine].op \in {"SetConversationTopic", "SetConversationMood"}) =>
          /\ HistoryLen(MainConversation) > offset[FlowGroup]
          /\ conversations[MainConversation].Messages[offset[FlowGroup] + 1]
                = NextMessage(FlowGroup)
    /\ (Handling /\ calls[FlowGoroutine].op = "SetConversationMood"
                 /\ detectTopic(NextMessage(FlowGroup).Content) # {""}) =>
          TopicOf(conversations) \in detectTopic(NextMessage(FlowGroup).Content)

\* the flow manager is about to write the mood of the first record, whose
\* topic it has written
C18_Witness ==
    /\ Handling
    /\ At(FlowGoroutine, "set_mood")
    /\ HistoryLen(MainConversation) = 1
    /\ TopicOf(conversations) # ""
    /\ MoodOf(conversations) = ""

\* C19: while handleMessage handles a record whose content has no topic
\* keyword the topic of the conversation does not change, and while it
\* handles a record whose content has no mood keyword the mood does not
\* change.
C19_AbsentLabelKeepsState ==
    [][Handling =>
          /\ detectTopic(NextMessage(FlowGroup).Content) = {""} =>
                TopicOf(conversations') = TopicOf(conversations)
          /\ detectMood(NextMessage(FlowGroup).Content) = {""} =>
                MoodOf(conversations') = MoodOf(conversations)]_vars

\* handleMessage has run all its statements on a record without topic or mood
\* keyword, in a conversation that had a topic and a mood
C19_Witness ==
    /\ Handling
    /\ At(FlowGoroutine, "idle")
    /\ calls[FlowGoroutine].stmt = Len(handleMessageBody)
    /\ detectTopic(NextMessage(FlowGroup).Content) = {""}
    /\ detectMood(NextMessage(FlowGroup).Content) = {""}
    /\ HistoryLen(MainConversation) = offset[FlowGroup] + 1
    /\ TopicOf(conversations) # ""
    /\ MoodOf(conversations) # ""

\* C20: once handleMessage has run all its statements on a record, the sender
\* of the record is in the Participants of the conversation; whoever
\* RegisterParticipant registered is in the Participants of the conversation;
\* and the participants GetConversationStats counts are those registered or
\* seen as the sender of a stored message.
C20_RosterMaintained ==
    /\ (Handling /\ At(FlowGoroutine, "idle")
          /\ calls[FlowGoroutine].stmt = Len(handleMessageBody)) =>
          NextMessage(FlowGroup).AgentID
              \in DOMAIN conversations[MainConversation].Participants
    /\ MainConversation \in DOMAIN conversations =>
          \A p \in DOMAIN participants :
              p \in DOMAIN conversations[MainConversation].Participants
    /\ \A t \in DOMAIN calls :
          (calls[t].op = "GetConversationStats" /\ calls[t].pc = "done") =>
              calls[t].stats.participants
                  >= Cardinality({Conv(t).Messages[i].AgentID :
                                     i \in 1..Len(Conv(t).Messages)})

---------------------------------------------------------------------------
(* Properties of Scenario B *)

\* the record a user wrote first on the topic
Triggered == Len(chatMessages) > 0 /\ chatMessages[1].Type = MessageTypeUser

\* the agent has finished HandleMessage on that record
HandledTrigger(a) ==
    IF last.op = "HandleMessage" /\ last.agent = a /\ Triggered
    THEN last.message.AgentID = chatMessages[1].AgentID
    ELSE FALSE

Published(a) == \E i \in 1..Len(chatMessages) : chatMessages[i].AgentID = a

\* C17: with two agents of response chance 1.0 and a first message written by
\* a user, each agent that finishes HandleMessage on that message has decided
\* to respond, each agent eventually has a reply on the topic, and every
\* call of a method of the Store, by an agent or by the flow manager,
\* eventually returns.
C17_BothEventuallyPublish ==
    /\ [](\A a \in ScenarioAgents : HandledTrigger(a) => last.respond)
    /\ \A a \in ScenarioAgents : Triggered ~> Published(a)
    /\ \A t \in {FlowGoroutine} \cup ScenarioAgents :
          (calls[t].pc # "idle") ~> (calls[t].pc \in {"idle", "done"})

\* both agents have their reply to the first message on the topic, and
\* nothing but that message was in the history either of them read
C17_Witness ==
    /\ Triggered
    /\ Len(chatMessages) = 3
    /\ \A a \in ScenarioAgents : Published(a)
    /\ \E a \in ScenarioAgents : HandledTrigger(a) /\ last.respond
    /\ \E t \in {FlowGoroutine} : calls[t].pc # "idle"

\* handleMessage has run all its statements on the record at the offset
Handled ==
    /\ Handling
    /\ At(FlowGoroutine, "idle")
    /\ calls[FlowGoroutine].stmt = Len(handleMessageBody)

\* C21: handleMessage rejects no message: when it has run all its statements
\* on a record, whatever its content, the history of the conversation holds
\* that record as its newest entry, once; the history never holds more
\* entries than records were handled; and no call of the flow manager into
\* the Store panics.
C21_EveryMessageStored ==
    /\ Handled =>
          /\ HistoryLen(MainConversation) = offset[FlowGroup] + 1
          /\ conversations[MainConversation].Messages[offset[FlowGroup] + 1]
                = NextMessage(FlowGroup)
    /\ FlowGoroutine \in DOMAIN calls =>
          /\ HistoryLen(MainConversation) <= offset[FlowGroup] + 1
          /\ HistoryLen(MainConversation) >= offset[FlowGroup]
          /\ ~calls[FlowGoroutine].panicked

\* handleMessage has run on a record with empty content, the second record
\* of the topic
C21_Witness ==
    /\ Handled
    /\ offset[FlowGroup] = 1
    /\ NextMessage(FlowGroup).Content = TextEmpty
    /\ HistoryLen(MainConversation) = 2
    /\ conversations[MainConversation].Messages[2].Content = TextEmpty

\* C22: a message without conversation id does not enter the Store: no
\* history holds a message whose conversation id is empty, and no
\* conversation is kept under the empty id.
C22_EmptyConversationIdRejected ==
    /\ "" \notin DOMAIN conversations
    /\ \A c \in DOMAIN conversations :
          \A i \in 1..Len(conversations[c].Messages) :
              conversations[c].Messages[i].ConversationID # ""

\* C23: detectTopic returns the same label for the same text: when the flow
\* manager is about to write the topic it detected in the second record and
\* the first record had the same content, the label it holds is the topic
\* the conversation has from the first record.
C23_ClassifierDeterministic ==
    (/\ Handling
     /\ calls[FlowGoroutine].op = "SetConversationTopic"
     /\ calls[FlowGoroutine].pc \in {"goc_lock", "goc_lookup", "goc_unlock",
                                      "conv_lock", "set_topic"}
     /\ offset[FlowGroup] = 1
     /\ chatMessages[1].Content = chatMessages[2].Content)
        => calls[FlowGoroutine].label = TopicOf(conversations)

---------------------------------------------------------------------------
(* Properties of the agent runtime *)

\* Stop has run on the agent while it was running, and the agent has not
\* been started since
Stopped(a) == AgentContext(a) \in done /\ ~agents[a].running

\* the messages a step adds to the chat topic
NewMessages == {chatMessages'[i] : i \in (Len(chatMessages) + 1)..Len(chatMessages')}

\* C24: once Stop has returned for an agent, its handler is invoked for no
\* message its subscription reads afterwards, whether or not the context
\* passed to Start is cancelled.
C24_StopStopsConsumption ==
    [][\A a \in RuntimeAgents : Stopped(a) => ~HandleMessageCall(a)]_vars

\* C25: a stopped agent publishes nothing: no step taken while the agent is
\* stopped adds a message of the agent to the chat topic, a reply the agent
\* had decided on before Stop included.
C25_StopCancelsReply ==
    [][\A a \in RuntimeAgents :
          Stopped(a) => \A m \in NewMessages : m.AgentID # a]_vars

\* C26: Stop on an agent that is not running (stopped before, or never
\* started) returns no error and changes neither the agent nor its context,
\* its subscriptions, the topics, the offsets or the Store.
C26_StopIdempotent ==
    [][\A a \in RuntimeAgents :
          (StopAgent(a) /\ ~agents[a].running) =>
              /\ last'.err = ""
              /\ UNCHANGED <<agents, done, loops, chatMessages, chatResponses,
                             conversations, offset, calls, mu>>]_vars

\* Stop has returned for the second time in a row on an agent that was
\* started once
C26_Witness ==
    /\ last.op = "Stop"
    /\ ~last.wasRunning
    /\ last.err = ""
    /\ Stopped(last.agent)
    /\ loops[last.agent] = 1

\* C27: an agent that has been stopped is never running again.
C27_StoppedIsAbsorbing ==
    \A a \in DOMAIN agents : AgentContext(a) \in done => ~agents[a].running

\* C29: every message an agent publishes has type agent, the id of the
\* agent as sender and the conversation id of the message that HandleMessage
\* was called with.
C29_ReplyIdentity ==
    [][\A a \in RuntimeAgents :
          HandleMessageReturn(a) =>
              \A m \in NewMessages :
                  /\ m.Type = MessageTypeAgent
                  /\ m.AgentID = agents[a].id
                  /\ m.ConversationID = calls[a].message.ConversationID]_vars

\* the agent has published its reply to a message of the side conversation
C29_Witness ==
    /\ last.op = "HandleMessage"
    /\ last.published
    /\ last.message.ConversationID = SideConversation
    /\ chatMessages[Len(chatMessages)].AgentID = last.agent
    /\ chatMessages[Len(chatMessages)].ConversationID = SideConversation

\* C28: when generateResponse returns an error for a message, the agent
\* publishes nothing for that message, no apology included, and the handler
\* returns nil.
C28_GenerationFailureIsSilent ==
    /\ (last.op = "LLMHandleMessage" /\ last.err # "") => ~last.published
    /\ \A i \in 1..Len(chatMessages) : chatMessages[i].Content # LLMApology

\* C30: every reply an agent publishes is on the chat-messages topic, the one
\* the flow manager and the agents consume.
C30_RepliesOnChatMessages ==
    \A i \in 1..Len(chatResponses) :
        \E j \in 1..Len(chatMessages) : chatMessages[j] = chatResponses[i]

---------------------------------------------------------------------------
(* Properties of the subscription loops *)

\* C31: every consumer reads under a group of its own, so every record a
\* group has consumed was read by each consumer of that group: the flow
\* manager and every agent get every record.
C31_FanOut ==
    \A c \in DOMAIN consumers :
        consumers[c].read = SubSeq(chatMessages, 1, offset[consumers[c].group])

\* the payloads FromJSON accepts
Decodes(value) == FromJSON(value).err = ""

\* the loop of c ends an iteration with an error
FailedIteration(c) == consumers'[c] # consumers[c] /\ consumers'[c].err # ""

\* C34: a payload that does not decode, or an error of the handler, costs
\* the consumer that one message only: between iterations what it handled
\* is exactly the decodable records it read, it is not ended unless its
\* context is cancelled, and the failing iteration changes neither the
\* Store, nor the topic, nor any other consumer.
C34_FailureSkipsOneMessage ==
    /\ [](\A c \in DOMAIN consumers :
            /\ consumers[c].pc \in {"select", "read", "returned"} =>
                  consumers[c].handled = SelectSeq(consumers[c].read, Decodes)
            /\ consumers[c].pc = "returned" => consumers[c].ctx \in done)
    /\ [][\A c \in DOMAIN consumers :
            FailedIteration(c) =>
                /\ consumers'[c].pc = "select"
                /\ conversations' = conversations
                /\ chatMessages' = chatMessages
                /\ \A d \in DOMAIN consumers \ {c} : consumers'[d] = consumers[d]]_vars

\* a consumer read a payload that does not decode, skipped it and handled
\* the next record; the handler of another one returned an error
C34_Witness ==
    /\ \E c \in DOMAIN consumers :
          /\ Len(consumers[c].read) = 2
          /\ consumers[c].read[1] = Garbage
          /\ Len(consumers[c].handled) = 1
    /\ \E c \in DOMAIN consumers :
          /\ consumers[c].err = "write failed"
          /\ consumers[c].pc = "select"

\* C35: a failed read hands nothing to the handler and publishes nothing,
\* and the loop goes back to its select; once the context of a consumer is
\* cancelled its loop returns.
C35_RetryAndCancel ==
    /\ [][\A c \in DOMAIN consumers :
            (consumers[c].pc = "read" /\ consumers'[c].err = "read failed") =>
                /\ consumers'[c].pc = "select"
                /\ consumers'[c].handled = consumers[c].handled
                /\ chatMessages' = chatMessages
                /\ offset' = offset]_vars
    /\ \A c \in BusConsumers :
          (consumers[c].ctx \in done) ~> (consumers[c].pc = "returned")

\* a loop whose read failed at least once has returned after the cancel
C35_Witness ==
    \E c \in DOMAIN consumers :
        /\ consumers[c].retried
        /\ consumers[c].ctx \in done
        /\ consumers[c].pc = "returned"

---------------------------------------------------------------------------
(* Properties of the configuration *)

\* C32: the response chance of every agent is in [0, 1], and a
\* SetResponseChance with an argument outside [0, 1] leaves it unchanged.
C32_ResponseChanceInRange ==
    /\ \A a \in DOMAIN agents :
          agents[a].responseChance >= 0 /\ agents[a].responseChance <= 10
    /\ (last.op = "SetResponseChance" /\ (last.chance < 0 \/ last.chance > 10)) =>
          agents[last.agent].responseChance = last.before

\* C33: an agent is created for an entry only if the entry is enabled, has
\* an id and a known type; an empty name becomes the id; a response_chance
\* that is not written becomes 0.7 and one written in [0.0, 1.0] is kept.
C33_CreationFromConfig ==
    last.op \in {"createAgent", "createNaturalAgent"} =>
        /\ last.agent.kind # "nil" =>
              /\ last.entry.enabled
              /\ last.entry.id # ""
              /\ last.op = "createAgent" => last.entry.type \in {"llm", "echo"}
              /\ last.agent.id = last.entry.id
              /\ last.agent.name =
                    IF last.entry.name = "" THEN last.entry.id ELSE last.entry.name
              /\ ~last.entry.hasResponseChance =>
                    last.agent.responseChance = DefaultResponseChance
              /\ (/\ last.entry.hasResponseChance
                  /\ last.entry.response_chance >= 0
                  /\ last.entry.response_chance <= 10) =>
                    last.agent.responseChance = last.entry.response_chance

\* C36: the flow manager appends a message to the conversation of the
\* message's own conversation id, the one an agent passes to
\* GetRecentMessages when it decides about the message: every entry of a
\* history that carries a conversation id carries the id the history is kept
\* under.
C36_StoredUnderOwnConversation ==
    \A c \in DOMAIN conversations :
        \A i \in 1..Len(conversations[c].Messages) :
            conversations[c].Messages[i].ConversationID \in {c, ""}

\* C37: an agent has at most one subscription loop alive, whatever the
\* sequence of Start and Stop calls, and a Start on a running agent returns
\* an error.
C37_AtMostOneSubscription ==
    /\ \A a \in DOMAIN loops : loops[a] <= 1
    /\ (last.op = "Start" /\ last.wasRunning) => last.err # ""

---------------------------------------------------------------------------
(* Properties of the returned slice *)

\* C38: a slice GetRecentMessages returned keeps its length and its
\* elements, whatever is appended to the conversation afterwards.
C38_RecentIsSnapshot ==
    \A t \in DOMAIN slices.returned :
        LET window == slices.returned[t]
        IN  (window.taken /\ window.array # 0) =>
                /\ window.high - window.low = Len(window.copy)
                /\ Elements(slices, window) = window.copy

\* an agent holds a slice of two messages while conv.Messages, still on the
\* same backing array, has grown by an append in place; another one holds a
\* slice on an array conv.Messages has left
C38_Witness ==
    /\ \E t \in DOMAIN slices.returned :
          /\ slices.returned[t].taken
          /\ slices.returned[t].high - slices.returned[t].low = 2
          /\ slices.returned[t].array = slices.messages.array
          /\ slices.messages.len > slices.returned[t].high
    /\ \E t \in DOMAIN slices.returned :
          /\ slices.returned[t].taken
          /\ slices.returned[t].array \notin {0, slices.messages.array}

---------------------------------------------------------------------------
(* Properties of the agent manager *)

\* C39: RegisterAgent with an id that is registered returns an error and
\* leaves the registry as it is: the agent registered first stays; of the
\* calls with one id, concurrent ones included, exactly one returns nil.
C39_DuplicateRegistrationRejected ==
    /\ \A i, j \in 1..Len(manager.registered) :
          manager.registered[i].id = manager.registered[j].id => i = j
    /\ \A i \in 1..Len(manager.registered) :
          /\ manager.registered[i].id \in DOMAIN manager.agents
          /\ manager.agents[manager.registered[i].id] = manager.registered[i]
    /\ \A i \in 1..Len(manager.refused) :
          /\ manager.refused[i].id \in DOMAIN manager.agents
          /\ \/ \E j \in 1..Len(manager.registered) :
                   manager.registered[j].id = manager.refused[i].id
             \/ \E g \in DOMAIN manager.frames :
                   /\ manager.frames[g].pc = "unlock"
                   /\ manager.frames[g].err = ""
                   /\ manager.frames[g].agent.id = manager.refused[i].id

\* the agent "first" is registered under a1, a call with the agent "second"
\* of the same id was refused, and two calls with that id are in flight
C39_Witness ==
    /\ manager.registered = <<[id |-> "a1", name |-> "first"]>>
    /\ manager.refused = <<[id |-> "a1", name |-> "second"]>>
    /\ manager.agents["a1"].name = "first"
    /\ \A g \in DOMAIN manager.frames :
          manager.frames[g].pc # "idle" /\ manager.frames[g].agent.id = "a1"

---------------------------------------------------------------------------
(* Properties of the web server *)

\* C40: the map of clients is written only by the goroutine that holds
\* clientsMu exclusively, so no two goroutines write it at the same time.
C40_RegistryWrittenUnderLock ==
    /\ \A g \in web.writing : web.clientsMu.writer = g
    /\ Cardinality(web.writing) <= 1

====
